---- MODULE Spec2Model ----
(***************************************************************************)
(* Minimac4: the unique-haplotype block compressor, the reduced-haplotype  *)
(* collection and the per-chunk imputation pipeline, as state machines.    *)
(*                                                                         *)
(*   SpecBlock    unique_haplotype_block: compress_variant, serialize,     *)
(*                deserialize, clear                                       *)
(*   SpecReduced  reduced_haplotypes: compress_variant, append_block       *)
(*   SpecImpute   imputation::impute_chunk: haplotype groups, the parallel *)
(*                haplotype loop, temp files, merge and final write        *)
(*                                                                         *)
(* The bodies of unique_haplotype_block and reduced_haplotypes are not     *)
(* part of the sources at hand (only unique_haplotype.hpp is); they are    *)
(* modelled from the header's documentation and the design document.       *)
(***************************************************************************)
EXTENDS Integers, Sequences, FiniteSets, TLC

\* ------------------------------------------------------------------------
\* Bounds
\* ------------------------------------------------------------------------
\* expanded haplotype slots of a reference panel absorbed into one block
NHaps == 4
\* variants read from that panel
MaxVariants == 2
\* slots and variants of a panel that is compressed to a savvy file and read back
NSerialHaps == 3
MaxSerialVariants == 2
\* slots of the panel, sites of the panel and blocks held by a reduced_haplotypes
NReducedHaps == 2
MaxRefVariants == 3
MaxRefBlocks == 3
\* samples of the target panel, --temp-buffer and --threads
MaxSamples == 3
MaxTempBuffer == 2
MaxThreads == 2
\* the last position of the region the run imputes
MaxEndPos == 4
\* command-line options handed to prog_args::parse
MaxArgs == 2
\* the largest row and column counts full_dosages_results is resized to
MaxRows == 2
MaxColumns == 2
\* target variants handed to separate_target_only_variants
MaxSites == 4
\* typed target variants whose recombination probabilities are filled in
MaxTyped == 3
\* typed variants one HMM traversal runs over
MaxHmmSites == 3

\* savvy::typed_value end-of-vector sentinel of an int8 vector (0x81); the
\* int64 sentinel stored in unique_map_ is represented by the same value
EOV == -127
\* a gt entry of the variant under construction that no haplotype has set yet
Unset == -1

VARIABLES
  \* unique_haplotype_block
  unique_map_, cardinalities_, variants_,
  \* the reference file being compressed: its haplotype slots, which of them
  \* are padding, how many records it has, how many were read, the allele
  \* vectors accepted into the current block
  n_slots, ploidy_eov, n_records, n_read, supplied,
  \* the last compress_variant or serialize call: which, its allele vector, and
  \* the value it returned
  last_op, last_alleles, last_ret,
  \* the savvy file written by serialize and the blocks written to it; closed:
  \* the writing run is over and the file is read back by deserialize; in_pos:
  \* the reader's position; in_ret: what the last deserialize returned; n_deser:
  \* blocks read so far; damaged: the file was altered after it was written
  stream, closed, out_blocks, in_ret, in_pos, n_deser, damaged,
  \* reduced_haplotypes
  block_offsets_, blocks_, variant_count_, min_block_size_, max_block_size_,
  flush_block_,
  \* the slope unit of the flushing policy and the compression ratio at the last
  \* check, as [num, den] (den = 0: no check yet in this block)
  slope_unit, last_cr,
  \* sites of the panel used so far; why flush_block_ was last set; the last
  \* call on the collection: [op, flush, ret, popped]
  next_site, flush_reason, rh_last,
  \* impute_chunk: the program arguments and the loaded panels; where the
  \* orchestrator is; its locals; the columns of hmm_results.dosages_ (the
  \* haplotype whose dosages a column holds, or EOV)
  args, panel, ic_pc, haplotype_buffer_size, group_i, group_size, dosages_,
  target_only_sites, ret,
  \* the parallel loop: iterations not yet taken; what each pool thread runs;
  \* the traversals in flight on each element of hmms; the columns the tasks of
  \* this group write; haplotypes traversed and haplotypes skipped
  pending, worker, hmm_busy, col_writes, finished, skipped,
  \* the lists of temp file readers, the temp file names present in the file
  \* system, and the writes that returned
  temp_files, temp_emp_files, tmp_fs, written,
  \* the chunk loop of the run: its position, the end of the region, --chunk,
  \* the exit code ("none" while running), and the chunks handed to
  \* impute_chunk so far with what each returned
  chunk_start_pos, end_pos, chunk_size, exit_code, chunk_log,
  \* prog_args: the fields the parsed options write, and the options getopt_long
  \* has still to return
  prog_args, argv,
  \* a full_dosages_results object: [dosages_, loo_dosages_], each a sequence
  \* of rows; and the last dimensions query on it: [op, dims]
  results, last_dims,
  \* separate_target_only_variants: [pc, input, target_sites,
  \* target_only_sites, i, shift_idx]
  separation,
  \* the end of load_reference_haplotypes: [pc, mode, recom_min, gaps, recom,
  \* k], recom[k] the probability stored in the k-th typed variant
  recom_load,
  \* one hidden_markov_model in a forward traversal: [pc, i, probs, norecom,
  \* obs, recom, precision_jumps_, rescaled, last_condition, last_transpose]
  hmm

serVars == <<stream, closed, out_blocks, in_ret, in_pos, n_deser, damaged>>

fileVars == <<n_slots, ploidy_eov, n_records>>

callVars == <<last_op, last_alleles, last_ret>>

blockVars == <<unique_map_, cardinalities_, variants_, fileVars, n_read,
               supplied, callVars, serVars>>

reducedVars == <<block_offsets_, blocks_, variant_count_, min_block_size_,
                 max_block_size_, flush_block_, slope_unit, last_cr, next_site,
                 flush_reason, rh_last>>

loopVars == <<pending, worker, hmm_busy, col_writes, finished, skipped>>

fileSysVars == <<temp_files, temp_emp_files, tmp_fs, written>>

argVars == <<prog_args, argv>>

resultVars == <<results, last_dims>>

prepVars == <<separation, recom_load, hmm>>

runVars == <<chunk_start_pos, end_pos, chunk_size, exit_code, chunk_log, argVars,
             resultVars, prepVars>>

imputeVars == <<args, panel, ic_pc, haplotype_buffer_size, group_i, group_size,
                dosages_, target_only_sites, ret, loopVars, fileSysVars, runVars>>

vars == <<blockVars, reducedVars, imputeVars>>

\* ------------------------------------------------------------------------
\* Helpers
\* ------------------------------------------------------------------------
RECURSIVE SumSeq(_)
SumSeq(s) == IF s = <<>> THEN 0 ELSE Head(s) + SumSeq(Tail(s))

\* sum over columns c of cardinalities[c] * gt[c]
RECURSIVE DotSeq(_, _)
DotSeq(c, g) ==
  IF c = <<>> \/ g = <<>> THEN 0 ELSE Head(c) * Head(g) + DotSeq(Tail(c), Tail(g))

IsEov(x) == x = EOV

Range(s) == {s[i] : i \in 1..Len(s)}

BlockOf(um, card, vs) == [unique_map |-> um, cardinalities |-> card, variants |-> vs]

EmptyBlock == BlockOf(<<>>, <<>>, <<>>)

\* the k-th record of the reference file (site fields only)
SiteOf(k) ==
  [pos |-> 100 + k, ref |-> IF k % 2 = 0 THEN "A" ELSE "G",
   alt |-> IF k % 3 = 0 THEN "C" ELSE "T",
   err |-> k % 2, recom |-> 2 + (k % 3), cm |-> 10 + k]

MakeVariant(site, ac, gt) ==
  [pos |-> site.pos, ref |-> site.ref, alt |-> site.alt, err |-> site.err,
   recom |-> site.recom, cm |-> site.cm, ac |-> ac, gt |-> gt]

\* ------------------------------------------------------------------------
\* unique_haplotype_block::compress_variant
\* ------------------------------------------------------------------------
\* First variant of a block: every distinct allele seeds a column.
RECURSIVE FirstVariantSlots(_, _, _)
FirstVariantSlots(st, alleles, i) ==
  IF i > Len(alleles) THEN st
  ELSE LET a == alleles[i] IN
    IF IsEov(a)
    THEN FirstVariantSlots([st EXCEPT !.unique_map = Append(@, EOV)], alleles, i + 1)
    ELSE LET js == {j \in 1..Len(st.gt) : st.gt[j] = a} IN
      IF js # {}
      THEN LET j == CHOOSE x \in js : TRUE IN
           FirstVariantSlots([st EXCEPT !.unique_map = Append(@, j - 1),
                                        !.cardinalities[j] = @ + 1], alleles, i + 1)
      ELSE FirstVariantSlots([st EXCEPT !.unique_map = Append(@, Len(st.gt)),
                                        !.cardinalities = Append(@, 1),
                                        !.gt = Append(@, a)], alleles, i + 1)

\* Does new column j (created during this call) take haplotypes leaving column c
\* with allele a?  It does when it was split from c and carries a here.
MatchesSplitBug(st, j, c, a) == st.gt[j] = a

MatchesSplit(st, j, c, a) == st.src[j] = c /\ st.gt[j] = a

\* cardinalities after one haplotype leaves column c for a new column
SplitCardinalitiesBug(card, c) == Append(card, 1)

SplitCardinalities(card, c) == Append([card EXCEPT ![c + 1] = @ - 1], 1)

\* ploidy consistency: allele a arrives at a slot mapped to c
PloidyMismatchBug(a, c) == IsEov(c) /\ ~IsEov(a)

PloidyMismatch(a, c) == IsEov(a) # IsEov(c)

\* Later variants: walk the slots; st.gt is the new variant's row, st.old the
\* rows of the earlier variants, st.src the split source of every new column.
RECURSIVE LaterVariantSlots(_, _, _)
LaterVariantSlots(st, alleles, i) ==
  IF i > Len(alleles) \/ ~st.ok THEN st
  ELSE LET a == alleles[i]
           c == st.unique_map[i]
       IN
    IF PloidyMismatch(a, c) THEN [st EXCEPT !.ok = FALSE]
    ELSE IF IsEov(a) THEN LaterVariantSlots(st, alleles, i + 1)
    ELSE IF st.gt[c + 1] = Unset
      THEN LaterVariantSlots([st EXCEPT !.gt[c + 1] = a], alleles, i + 1)
    ELSE IF st.gt[c + 1] = a THEN LaterVariantSlots(st, alleles, i + 1)
    ELSE LET js == {j \in (st.norig + 1)..Len(st.gt) : MatchesSplit(st, j, c, a)} IN
      IF js # {}
      THEN LET j == CHOOSE x \in js : \A y \in js : x <= y IN
           LaterVariantSlots([st EXCEPT !.unique_map[i] = j - 1,
                                        !.cardinalities[c + 1] = @ - 1,
                                        !.cardinalities[j] = @ + 1], alleles, i + 1)
      ELSE LaterVariantSlots(
             [st EXCEPT !.unique_map[i] = Len(st.gt),
                        !.cardinalities = SplitCardinalities(@, c),
                        !.gt = Append(@, a),
                        !.src = Append(@, c),
                        !.old = [k \in 1..Len(@) |->
                                   [@[k] EXCEPT !.gt = Append(@, @[c + 1])]]],
             alleles, i + 1)

\* returns [ok, block]; a failed call leaves the block as it was
CompressVariantBlock(b, site, alleles) ==
  IF alleles = <<>> THEN [ok |-> FALSE, block |-> b]
  ELSE IF b.variants = <<>>
  THEN LET st == FirstVariantSlots([unique_map |-> <<>>, cardinalities |-> <<>>,
                                    gt |-> <<>>], alleles, 1)
       IN [ok |-> TRUE,
           block |-> BlockOf(st.unique_map, st.cardinalities,
                       <<MakeVariant(site, DotSeq(st.cardinalities, st.gt), st.gt)>>)]
  ELSE IF Len(alleles) # Len(b.unique_map) THEN [ok |-> FALSE, block |-> b]
  ELSE LET n  == Len(b.cardinalities)
           st == LaterVariantSlots(
                   [ok |-> TRUE, unique_map |-> b.unique_map,
                    cardinalities |-> b.cardinalities,
                    gt |-> [c \in 1..n |-> Unset], src |-> [c \in 1..n |-> c - 1],
                    norig |-> n, old |-> b.variants], alleles, 1)
       IN IF ~st.ok THEN [ok |-> FALSE, block |-> b]
          ELSE [ok |-> TRUE,
                block |-> BlockOf(st.unique_map, st.cardinalities,
                            Append(st.old,
                              MakeVariant(site, DotSeq(st.cardinalities, st.gt), st.gt)))]

ThisBlock == BlockOf(unique_map_, cardinalities_, variants_)

\* allele vectors of the reference file: 0/1 at real slots, EOV at padding
GoodAlleles == {a \in [1..n_slots -> {0, 1, EOV}] :
                  \A h \in 1..n_slots : IsEov(a[h]) <=> h \in ploidy_eov}

\* vectors a faulty record can carry: empty, short, or padding that moved
\* (a sentinel at the first slot, an allele at the last slot)
BadAlleles ==
  {<<>>, [h \in 1..(n_slots - 1) |-> 0]}
    \cup {[h \in 1..n_slots |-> IF h = 1 \/ h \in ploidy_eov THEN EOV ELSE 0]}
    \cup {[h \in 1..n_slots |-> 0] : x \in ploidy_eov}

CompressVariant(alleles) ==
  /\ ~closed
  /\ LET r == CompressVariantBlock(ThisBlock, SiteOf(n_read + 1), alleles) IN
       /\ unique_map_' = r.block.unique_map
       /\ cardinalities_' = r.block.cardinalities
       /\ variants_' = r.block.variants
       /\ supplied' = IF r.ok THEN Append(supplied, alleles) ELSE supplied
       /\ n_read' = IF r.ok THEN n_read + 1 ELSE n_read
       /\ last_ret' = r.ok
  /\ last_op' = "compress_variant"
  /\ last_alleles' = alleles
  /\ UNCHANGED <<fileVars, serVars, reducedVars, imputeVars>>

\* the next record of the file is well formed
CompressGood == n_read < n_records /\ \E a \in GoodAlleles : CompressVariant(a)

\* a faulty record, anywhere in the file; the first record of a block sets the
\* layout, so only an empty vector is faulty there
CompressBad ==
  \E a \in BadAlleles : (a = <<>> \/ variants_ # <<>>) /\ CompressVariant(a)

\* ------------------------------------------------------------------------
\* unique_haplotype_block::serialize / deserialize(savvy::reader&, ...)
\* ------------------------------------------------------------------------
\* one savvy record: the <BLOCK> boundary record carries the unique map, a
\* variant record carries INFO AC, AN, ERR, RECOM, CM and FORMAT UHA
BlockRecord(b) ==
  [pos |-> b.variants[1].pos, ref |-> b.variants[1].ref, alt |-> "<BLOCK>",
   ac |-> 0, an |-> 0, err |-> 0, recom |-> 0, cm |-> 0,
   reps |-> Len(b.cardinalities), vec |-> b.unique_map]

VariantRecord(b, v) ==
  [pos |-> v.pos, ref |-> v.ref, alt |-> v.alt,
   ac |-> v.ac, an |-> SumSeq(b.cardinalities), err |-> v.err,
   recom |-> v.recom, cm |-> v.cm, reps |-> 0, vec |-> v.gt]

\* the records serialize() writes for a non-empty block
SerializeRecords(b) ==
  <<BlockRecord(b)>> \o [k \in 1..Len(b.variants) |-> VariantRecord(b, b.variants[k])]

\* cardinalities rebuilt from the unique map of a boundary record
CountCardinalities(um, reps) ==
  [c \in 1..reps |-> Cardinality({h \in 1..Len(um) : um[h] = c - 1})]

\* a variant rebuilt from a record; ac is recomputed from the cardinalities
ReadVariantBug(rec, card) ==
  [pos |-> rec.pos, ref |-> rec.ref, alt |-> rec.alt, err |-> rec.err,
   recom |-> rec.err, cm |-> rec.cm, ac |-> rec.ac, gt |-> rec.vec]

ReadVariant(rec, card) ==
  [pos |-> rec.pos, ref |-> rec.ref, alt |-> rec.alt, err |-> rec.err,
   recom |-> rec.recom, cm |-> rec.cm, ac |-> DotSeq(card, rec.vec), gt |-> rec.vec]

\* index one past the last record of the block starting at from
RECURSIVE BlockEnd(_, _)
BlockEnd(recs, k) ==
  IF k > Len(recs) \/ recs[k].alt = "<BLOCK>" THEN k ELSE BlockEnd(recs, k + 1)

\* returns [ret, block, pos]: ret < 0 error, 0 end of input, n + 1 otherwise
DeserializeRecords(recs, from) ==
  IF from > Len(recs) THEN [ret |-> 0, block |-> EmptyBlock, pos |-> from]
  ELSE IF recs[from].alt # "<BLOCK>"
  THEN [ret |-> -1, block |-> EmptyBlock, pos |-> Len(recs) + 1]
  ELSE LET um   == recs[from].vec
           card == CountCardinalities(um, recs[from].reps)
           e    == BlockEnd(recs, from + 1)
           bad  == {k \in (from + 1)..(e - 1) : Len(recs[k].vec) # Len(card)}
       IN IF bad # {}
          THEN [ret |-> -1, block |-> EmptyBlock, pos |-> Len(recs) + 1]
          ELSE [ret |-> e - from,
                block |-> BlockOf(um, card,
                            [k \in 1..(e - from - 1) |-> ReadVariant(recs[from + k], card)]),
                pos |-> e]

\* compress_reference_panel flushes a block: serialize() it, then clear() it;
\* serialize() of an empty block writes nothing and returns false
FlushBlock ==
  /\ ~closed
  /\ LET ok == variants_ # <<>> IN
       /\ stream' = IF ok THEN stream \o SerializeRecords(ThisBlock) ELSE stream
       /\ out_blocks' = IF ok THEN Append(out_blocks, ThisBlock) ELSE out_blocks
       /\ last_ret' = ok
  /\ last_op' = "serialize"
  /\ last_alleles' = <<>>
  /\ unique_map_' = <<>>
  /\ cardinalities_' = <<>>
  /\ variants_' = <<>>
  /\ supplied' = <<>>
  /\ UNCHANGED <<fileVars, n_read, closed, in_ret, in_pos, n_deser, damaged,
                 reducedVars, imputeVars>>

\* the compression run ends after its last flush (the block is empty, the
\* savvy::writer is closed); a later run reads the file from its start
CloseWriter ==
  /\ ~closed
  /\ variants_ = <<>>
  /\ closed' = TRUE
  /\ n_read' = 0
  /\ last_op' = "none"
  /\ last_alleles' = <<>>
  /\ last_ret' = TRUE
  /\ UNCHANGED <<unique_map_, cardinalities_, variants_, supplied, fileVars, stream,
                 out_blocks, in_ret, in_pos, n_deser, damaged, reducedVars, imputeVars>>

\* the file is altered between writing and reading: the genotype vector of its
\* last record loses its last entry
DamageStream ==
  /\ closed /\ ~damaged /\ in_pos = 1
  /\ stream # <<>>
  /\ stream[Len(stream)].vec # <<>>
  /\ stream' = [stream EXCEPT ![Len(stream)].vec = SubSeq(@, 1, Len(@) - 1)]
  /\ damaged' = TRUE
  /\ UNCHANGED <<unique_map_, cardinalities_, variants_, fileVars, n_read, supplied,
                 callVars, closed, out_blocks, in_ret, in_pos, n_deser, reducedVars, imputeVars>>

Deserialize ==
  /\ closed
  /\ in_ret > 0
  /\ LET r == DeserializeRecords(stream, in_pos) IN
       /\ unique_map_' = r.block.unique_map
       /\ cardinalities_' = r.block.cardinalities
       /\ variants_' = r.block.variants
       /\ in_ret' = r.ret
       /\ in_pos' = r.pos
       /\ n_deser' = IF r.ret > 0 THEN n_deser + 1 ELSE n_deser
  /\ UNCHANGED <<fileVars, n_read, supplied, callVars, stream, closed, out_blocks,
                 damaged, reducedVars, imputeVars>>

\* the block and the savvy file as constructed, for a panel of w slots and n
\* records
InitBlockWith(w, n) ==
  /\ unique_map_ = <<>>
  /\ cardinalities_ = <<>>
  /\ variants_ = <<>>
  /\ n_slots = w
  /\ ploidy_eov \in {{}, {w}}
  /\ n_records = n
  /\ n_read = 0
  /\ supplied = <<>>
  /\ last_op = "none"
  /\ last_alleles = <<>>
  /\ last_ret = TRUE
  /\ stream = <<>>
  /\ closed = FALSE
  /\ out_blocks = <<>>
  /\ in_ret = 1
  /\ in_pos = 1
  /\ n_deser = 0
  /\ damaged = FALSE

NoCall == [op |-> "none", flush |-> FALSE, ret |-> TRUE, popped |-> FALSE]

NoRatio == [num |-> 0, den |-> 0]

\* reduced_haplotypes(min_block_size, max_block_size): both sizes are at least 1
InitReducedWith(mn, mx, su) ==
  /\ block_offsets_ = <<>>
  /\ blocks_ = <<>>
  /\ variant_count_ = 0
  /\ min_block_size_ = IF mn < 1 THEN 1 ELSE mn
  /\ max_block_size_ = IF mx < 1 THEN 1 ELSE mx
  /\ flush_block_ = TRUE
  /\ slope_unit = su
  /\ last_cr = NoRatio
  /\ next_site = 1
  /\ flush_reason = "none"
  /\ rh_last = NoCall

\* impute_chunk entered with arguments a for the panels p
InitImputeWith(a, p) ==
  /\ args = a
  /\ panel = p
  /\ ic_pc = "load"
  /\ haplotype_buffer_size = 0
  /\ group_i = 0
  /\ group_size = 0
  /\ dosages_ = <<>>
  /\ target_only_sites = p.n_target_only
  /\ ret = "none"
  /\ pending = {}
  /\ worker = [w \in 0..(a.threads - 1) |-> [h |-> Unset, phase |-> "idle"]]
  /\ hmm_busy = [t \in 0..(a.threads - 1) |-> {}]
  /\ col_writes = {}
  /\ finished = {}
  /\ skipped = {}
  /\ temp_files = <<>>
  /\ temp_emp_files = <<>>
  /\ tmp_fs = {}
  /\ written = <<>>

NoArgs ==
  [temp_buffer |-> 1, threads |-> 1, min_ratio |-> [num |-> 0, den |-> 1],
   fail_min_ratio |-> FALSE, emp_out |-> FALSE, all_typed_sites |-> FALSE]

NoPanel ==
  [n_samples |-> 0, ploidy |-> 1, eov |-> {}, full_size |-> 0, typed_size |-> 0,
   n_target_only |-> 0]

\* the member initializers of prog_args
DefaultArgs ==
  [min_block_size_ |-> 10, max_block_size_ |-> 65535, slope_unit_ |-> 10,
   min_ratio_ |-> [num |-> 1, den |-> 10000], fail_min_ratio_ |-> TRUE,
   all_typed_sites_ |-> FALSE, map_path_ |-> "", overlap_ |-> 3000000,
   threads_ |-> 1, chunk_size_ |-> 20000000, temp_buffer_ |-> 200]

\* nothing to parse
NoParse == prog_args = DefaultArgs /\ argv = <<>>

\* a default-constructed full_dosages_results
NoResults ==
  /\ results = [dosages_ |-> <<>>, loo_dosages_ |-> <<>>]
  /\ last_dims = [op |-> "none", dims |-> <<0, 0>>]

\* no call of separate_target_only_variants
NoSeparation ==
  [pc |-> "idle", input |-> <<>>, target_sites |-> <<>>, target_only_sites |-> <<>>,
   i |-> 0, shift_idx |-> 0]

\* no reference panel being loaded
NoRecomLoad ==
  [pc |-> "idle", mode |-> "map", recom_min |-> 0, gaps |-> <<>>, recom |-> <<>>,
   k |-> 0]

\* a hidden_markov_model that traverses nothing
NoHmm ==
  [pc |-> "idle", i |-> 0, probs |-> <<>>, norecom |-> <<>>, obs |-> <<>>,
   recom |-> 0, precision_jumps_ |-> <<>>, rescaled |-> {},
   last_condition |-> [i |-> 0], last_transpose |-> [i |-> 0]]

\* no input preparation and no traversal under way
NoPrep == separation = NoSeparation /\ recom_load = NoRecomLoad /\ hmm = NoHmm

\* no run of the chunk loop
NoRun ==
  /\ NoParse
  /\ NoResults
  /\ NoPrep
  /\ chunk_start_pos = 1
  /\ end_pos = 1
  /\ chunk_size = 1
  /\ exit_code = "none"
  /\ chunk_log = <<>>

NoChunk == InitImputeWith(NoArgs, NoPanel) /\ NoRun

\* a block absorbing the variants of a reference panel whose last sample may
\* be haploid
InitBlock ==
  InitBlockWith(NHaps, MaxVariants) /\ InitReducedWith(1, 1, 1) /\ NoChunk

NextBlock == CompressGood \/ CompressBad

SpecBlock == InitBlock /\ [][NextBlock]_vars

\* a reference panel compressed to a savvy file that is then read back
InitSerial ==
  /\ InitBlockWith(NSerialHaps, MaxSerialVariants)
  /\ InitReducedWith(1, 1, 1)
  /\ NoChunk

NextSerial == CompressGood \/ FlushBlock \/ CloseWriter \/ DamageStream \/ Deserialize

SpecSerial == InitSerial /\ [][NextSerial]_vars

\* ------------------------------------------------------------------------
\* reduced_haplotypes
\* ------------------------------------------------------------------------
Last(s) == s[Len(s)]

Front(s) == SubSeq(s, 1, Len(s) - 1)

SameKey(v, w) == v.pos = w.pos /\ v.ref = w.ref /\ v.alt = w.alt

\* unique_haplotype_block::pop_variant: only the variants_ container changes
PopVariant(b) == [b EXCEPT !.variants = Front(b.variants)]

TotalVariants(bs) == SumSeq([b \in 1..Len(bs) |-> Len(bs[b].variants)])

\* CR = (H + U * V) / (H * V), kept as numerator and denominator
CompressionRatio(b) ==
  [num |-> Len(b.unique_map) + Len(b.cardinalities) * Len(b.variants),
   den |-> Len(b.unique_map) * Len(b.variants)]

\* the ratio failed to improve (to fall) since the last check
NotImproved(new, old) == old.den # 0 /\ new.num * old.den >= old.num * new.den

ReachedMaxBug(V, mx) == V > mx

ReachedMax(V, mx) == V >= mx

RatioFlushBug(V, mn, su, new, old) == V % su = 0 /\ NotImproved(new, old)

RatioFlush(V, mn, su, new, old) == V % su = 0 /\ V >= mn /\ NotImproved(new, old)

\* reduced_haplotypes::compress_variant(site_info, alleles, flush_block)
ReducedCompressVariant(alleles, flush) ==
  LET fl    == flush_block_ \/ flush
      cur   == IF fl THEN EmptyBlock ELSE Last(blocks_)
      prev  == IF fl THEN NoRatio ELSE last_cr
      r     == CompressVariantBlock(cur, SiteOf(next_site), alleles)
      V     == Len(r.block.variants)
      cr    == CompressionRatio(r.block)
      byMax == ReachedMax(V, max_block_size_)
      byCR  == ~byMax /\ RatioFlush(V, min_block_size_, slope_unit, cr, prev)
  IN /\ rh_last' = [op |-> "compress_variant", flush |-> flush, ret |-> r.ok,
                    popped |-> FALSE]
     /\ IF ~r.ok
        THEN /\ flush_block_' = fl
             /\ flush_reason' = IF flush THEN "caller" ELSE flush_reason
             /\ UNCHANGED <<block_offsets_, blocks_, variant_count_, last_cr, next_site>>
        ELSE /\ blocks_' = IF fl THEN Append(blocks_, r.block)
                           ELSE [blocks_ EXCEPT ![Len(blocks_)] = r.block]
             /\ block_offsets_' = IF fl THEN Append(block_offsets_, variant_count_)
                                  ELSE block_offsets_
             /\ variant_count_' = variant_count_ + 1
             /\ flush_block_' = (byMax \/ byCR)
             /\ flush_reason' = IF byMax THEN "max" ELSE IF byCR THEN "ratio" ELSE "none"
             /\ last_cr' = IF V % slope_unit = 0 THEN cr ELSE prev
             /\ next_site' = next_site + 1
     /\ UNCHANGED <<min_block_size_, max_block_size_, slope_unit, blockVars,
                    imputeVars>>

\* records of a panel whose first haplotype carries the reference allele
PanelAlleles == {a \in GoodAlleles : a[1] = 0}

ReducedCompressGood ==
  /\ next_site <= n_records
  /\ \E a \in PanelAlleles, f \in BOOLEAN : ReducedCompressVariant(a, f)

\* a record whose allele vector is empty is refused
ReducedCompressBad == \E f \in BOOLEAN : ReducedCompressVariant(<<>>, f)

\* the first variant of an incoming block: the next site of the panel, the
\* last stored variant again, or another alternate allele at its position
FirstSites ==
  {[kind |-> "new", site |-> SiteOf(next_site)]}
    \cup (IF blocks_ # <<>> /\ Last(blocks_).variants # <<>>
          THEN LET v == Last(Last(blocks_).variants)
                   s == [pos |-> v.pos, ref |-> v.ref, alt |-> v.alt, err |-> v.err,
                         recom |-> v.recom, cm |-> v.cm]
               IN {[kind |-> "same", site |-> s],
                   [kind |-> "alt", site |-> [s EXCEPT !.alt = "G"]]}
          ELSE {})

\* a block of len variants read from a file, starting at site first and going
\* on with the sites from k
IncomingBlock(first, k, len) ==
  LET b1 == CompressVariantBlock(EmptyBlock, first,
                                 [h \in 1..n_slots |-> h % 2]).block
  IN IF len = 1 THEN b1
     ELSE CompressVariantBlock(b1, SiteOf(k), [h \in 1..n_slots |-> 0]).block

IsDuplicateBug(bs, b) ==
  /\ bs # <<>> /\ Last(bs).variants # <<>> /\ b.variants # <<>>
  /\ Last(Last(bs).variants).pos = b.variants[1].pos

IsDuplicate(bs, b) ==
  /\ bs # <<>> /\ Last(bs).variants # <<>> /\ b.variants # <<>>
  /\ SameKey(Last(Last(bs).variants), b.variants[1])

\* reduced_haplotypes::append_block(block)
AppendBlockTo(block) ==
  LET dup  == IsDuplicate(blocks_, block)
      kept == IF dup THEN [blocks_ EXCEPT ![Len(blocks_)] = PopVariant(@)] ELSE blocks_
      cnt  == IF dup THEN variant_count_ - 1 ELSE variant_count_
  IN /\ blocks_' = Append(kept, block)
     /\ block_offsets_' = Append(block_offsets_, cnt)
     /\ variant_count_' = cnt + Len(block.variants)
     /\ rh_last' = [op |-> "append_block", flush |-> FALSE, ret |-> TRUE,
                    popped |-> dup]

AppendBlock ==
  /\ Len(blocks_) < MaxRefBlocks
  /\ \E f \in FirstSites, len \in 1..2 :
       LET used == (IF f.kind = "new" THEN 1 ELSE 0) + (len - 1)
           k    == IF f.kind = "new" THEN next_site + 1 ELSE next_site
       IN /\ next_site + used - 1 <= n_records
          /\ AppendBlockTo(IncomingBlock(f.site, k, len))
          /\ next_site' = next_site + used
  /\ UNCHANGED <<min_block_size_, max_block_size_, flush_block_, slope_unit, last_cr,
                 flush_reason, blockVars, imputeVars>>

\* reduced_haplotypes::iterator
IterBegin == [block_idx |-> 0, variant_idx |-> 0]

IterEnd(bs) == [block_idx |-> Len(bs), variant_idx |-> 0]

\* operator++
IterInc(bs, it) ==
  IF it.variant_idx + 1 >= Len(bs[it.block_idx + 1].variants)
  THEN [block_idx |-> it.block_idx + 1, variant_idx |-> 0]
  ELSE [block_idx |-> it.block_idx, variant_idx |-> it.variant_idx + 1]

\* operator--; a block_idx_ decremented below 0 wraps to the largest
\* std::size_t, written Unset, which is no index of blocks_
RECURSIVE IterDec(_, _)
IterDec(bs, it) ==
  IF it.variant_idx = 0
  THEN IF it.block_idx = 0 THEN [block_idx |-> Unset, variant_idx |-> 0]
       ELSE IterDec(bs, [block_idx |-> it.block_idx - 1,
                         variant_idx |-> Len(bs[it.block_idx].variants)])
  ELSE [block_idx |-> it.block_idx, variant_idx |-> it.variant_idx - 1]

GlobalIdx(offs, it) == offs[it.block_idx + 1] + it.variant_idx

\* the positions a loop from begin() to end() visits, in order
RECURSIVE Iteration(_, _)
Iteration(bs, it) ==
  IF it = IterEnd(bs) THEN <<>> ELSE <<it>> \o Iteration(bs, IterInc(bs, it))

\* a panel read block by block from a file, or compressed variant by variant
InitReduced ==
  /\ InitBlockWith(NReducedHaps, MaxRefVariants)
  /\ ploidy_eov = {}
  /\ InitReducedWith(2, 3, 1)
  /\ NoChunk

NextReduced == ReducedCompressGood \/ ReducedCompressBad \/ AppendBlock

SpecReduced == InitReduced /\ [][NextReduced]_vars

\* reference compression under every small setting of the flushing policy
InitFlush ==
  /\ InitBlockWith(NReducedHaps, MaxRefVariants)
  /\ ploidy_eov = {}
  /\ \E mn \in {0, 2, 3}, mx \in {0, 2, 3}, su \in 1..2 : InitReducedWith(mn, mx, su)
  /\ NoChunk

NextFlush == ReducedCompressGood \/ ReducedCompressBad

SpecFlush == InitFlush /\ [][NextFlush]_vars

\* ------------------------------------------------------------------------
\* imputation::impute_chunk
\* ------------------------------------------------------------------------
Min(a, b) == IF a < b THEN a ELSE b

\* target_sites[0].gt.size()
TargetHaps == panel.n_samples * panel.ploidy

RatioBelowBug(typed, full, mr) == FALSE

\* float(typed) / float(full) < min_ratio, with min_ratio = num / den
RatioBelow(typed, full, mr) == typed * mr.den < mr.num * full

Idle == [h |-> Unset, phase |-> "idle"]

\* the index the pool hands to the task running on worker w
ThreadIndexBug(w) == 0

ThreadIndex(w) == w

\* the column of hmm_results a haplotype is written to
OutputColumnBug(h, hbs) == (h % hbs) \div 2

OutputColumn(h, hbs) == h % hbs

GroupSizeOf(n, i, hbs) == Min(n - i, hbs)

AllEov(cols) == [c \in 0..(cols - 1) |-> EOV]

\* the early returns of impute_chunk when loading the target or the reference
\* haplotypes fails
LoadFails ==
  /\ ic_pc = "load"
  /\ ic_pc' = "load_failed"
  /\ ret' = "false"
  /\ UNCHANGED <<args, panel, haplotype_buffer_size, group_i, group_size, dosages_,
                 loopVars, fileSysVars, target_only_sites, blockVars, reducedVars, runVars>>

EmptyReferenceBug(full) == FALSE

\* full_reference_data.variant_size() == 0
EmptyReference(full) == full = 0

\* from the loaded panel to the first haplotype group
Prepare ==
  /\ ic_pc = "load"
  /\ IF EmptyReference(panel.full_size)
     THEN /\ ic_pc' = "output"
          /\ UNCHANGED <<ret, target_only_sites, haplotype_buffer_size, dosages_>>
     ELSE IF RatioBelow(panel.typed_size, panel.full_size, args.min_ratio)
     THEN /\ ic_pc' = "done"
          /\ ret' = IF args.fail_min_ratio THEN "false" ELSE "true"
          /\ UNCHANGED <<target_only_sites, haplotype_buffer_size, dosages_>>
     ELSE /\ target_only_sites' =
               IF target_only_sites > 0 /\ ~args.all_typed_sites THEN 0
               ELSE target_only_sites
          /\ IF panel.typed_size = 0
             THEN /\ ic_pc' = "done"
                  /\ ret' = "false"
                  /\ UNCHANGED <<haplotype_buffer_size, dosages_>>
             ELSE /\ haplotype_buffer_size' = args.temp_buffer * panel.ploidy
                  /\ dosages_' = AllEov(Min(args.temp_buffer * panel.ploidy, TargetHaps))
                  /\ ic_pc' = "group"
                  /\ UNCHANGED ret
  /\ UNCHANGED <<args, panel, group_i, group_size, loopVars, fileSysVars, blockVars,
                 reducedVars, runVars>>

FillNeededBug(i) == FALSE

\* if (i > 0) hmm_results.fill_eov()
FillNeeded(i) == i > 0

\* the groups a chunk is followed for: one more than it has haplotypes
MaxGroups == TargetHaps + 1

\* the head of the group loop: the group's size and the narrowing of the
\* matrices for a short last group
GroupBegin ==
  /\ ic_pc = "group"
  /\ Len(temp_files) < MaxGroups
  /\ IF group_i < TargetHaps
     THEN LET gs == GroupSizeOf(TargetHaps, group_i, haplotype_buffer_size) IN
          /\ group_size' = gs
          /\ dosages_' = IF gs < haplotype_buffer_size
                         THEN [c \in 0..(gs - 1) |-> dosages_[c]] ELSE dosages_
          /\ ic_pc' = IF FillNeeded(group_i) THEN "fill" ELSE "loop"
     ELSE /\ ic_pc' = "output"
          /\ UNCHANGED <<group_size, dosages_>>
  /\ UNCHANGED <<args, panel, haplotype_buffer_size, group_i, loopVars, fileSysVars,
                 target_only_sites, ret, blockVars, reducedVars, runVars>>

\* hmm_results.fill_eov()
FillEov ==
  /\ ic_pc = "fill"
  /\ dosages_' = [c \in DOMAIN dosages_ |-> EOV]
  /\ ic_pc' = "loop"
  /\ UNCHANGED <<args, panel, haplotype_buffer_size, group_i, group_size, loopVars,
                 fileSysVars, target_only_sites, ret, blockVars, reducedVars, runVars>>

\* omp::parallel_for_exp hands the iterations [i, i + group_size) to the pool
LoopStart ==
  /\ ic_pc = "loop"
  /\ pending' = group_i..(group_i + group_size - 1)
  /\ col_writes' = {}
  /\ ic_pc' = "parallel"
  /\ UNCHANGED <<args, panel, haplotype_buffer_size, group_i, group_size, dosages_,
                 worker, hmm_busy, finished, skipped, fileSysVars, target_only_sites,
                 ret, blockVars, reducedVars, runVars>>

SkipsHaplotypeBug(h, eov) == FALSE

\* savvy::typed_value::is_end_of_vector(target_sites[0].gt[i])
SkipsHaplotype(h, eov) == h \in eov

\* a pool thread takes an iteration; a haplotype whose first-site genotype is
\* the sentinel returns at once, any other enters traverse_forward
TaskStart(w) ==
  /\ ic_pc = "parallel"
  /\ worker[w].phase = "idle"
  /\ \E h \in pending :
       /\ pending' = pending \ {h}
       /\ IF SkipsHaplotype(h, panel.eov)
          THEN /\ skipped' = skipped \cup {h}
               /\ UNCHANGED <<worker, hmm_busy>>
          ELSE /\ worker' = [worker EXCEPT ![w] = [h |-> h, phase |-> "forward"]]
               /\ hmm_busy' = [hmm_busy EXCEPT ![ThreadIndex(w)] = @ \cup {h}]
               /\ UNCHANGED skipped
  /\ UNCHANGED <<args, panel, ic_pc, haplotype_buffer_size, group_i, group_size,
                 dosages_, col_writes, finished, fileSysVars, target_only_sites, ret,
                 blockVars, reducedVars, runVars>>

\* traverse_forward returns and traverse_backward starts on column
\* i % haplotype_buffer_size
ForwardDone(w) ==
  /\ worker[w].phase = "forward"
  /\ worker' = [worker EXCEPT ![w].phase = "backward"]
  /\ col_writes' = col_writes \cup
       {[h |-> worker[w].h, thread |-> w,
         col |-> OutputColumn(worker[w].h, haplotype_buffer_size)]}
  /\ UNCHANGED <<args, panel, ic_pc, haplotype_buffer_size, group_i, group_size,
                 dosages_, pending, hmm_busy, finished, skipped, fileSysVars,
                 target_only_sites, ret, blockVars, reducedVars, runVars>>

\* traverse_backward returns: its column of hmm_results holds the haplotype's
\* dosages
BackwardDone(w) ==
  /\ worker[w].phase = "backward"
  /\ LET h == worker[w].h
         c == OutputColumn(h, haplotype_buffer_size)
     IN /\ dosages_' = IF c \in DOMAIN dosages_ THEN [dosages_ EXCEPT ![c] = h]
                       ELSE dosages_
        /\ finished' = finished \cup {h}
        /\ hmm_busy' = [hmm_busy EXCEPT ![ThreadIndex(w)] = @ \ {h}]
  /\ worker' = [worker EXCEPT ![w] = Idle]
  /\ UNCHANGED <<args, panel, ic_pc, haplotype_buffer_size, group_i, group_size,
                 pending, col_writes, skipped, fileSysVars, target_only_sites, ret,
                 blockVars, reducedVars, runVars>>

LoopJoinedEarly == pending = {} /\ \A w \in DOMAIN worker : worker[w].phase # "forward"

LoopJoinedBug == pending = {}

\* every iteration was taken and every pool thread is back
LoopJoined == pending = {} /\ \A w \in DOMAIN worker : worker[w].phase = "idle"

\* parallel_for_exp returns
LoopJoin ==
  /\ ic_pc = "parallel"
  /\ LoopJoined
  /\ ic_pc' = "spill"
  /\ UNCHANGED <<args, panel, haplotype_buffer_size, group_i, group_size, dosages_,
                 loopVars, fileSysVars, target_only_sites, ret, blockVars, reducedVars, runVars>>

\* an unsigned division where it does not trap: by zero the result is 0
Quotient(a, b) == IF b = 0 THEN 0 ELSE a \div b

\* i / haplotype_buffer_size
GroupNumber == Quotient(group_i, haplotype_buffer_size)

\* the builds on which an integer division by zero ends the process
DivisionTraps == BOOLEAN

SpillNeededBug(n, hbs) == n >= hbs

\* target_sites[0].gt.size() > haplotype_buffer_size
SpillNeeded(n, hbs) == n > hbs

\* mkstemp for the group's dosage temp file, when there is more than one group
OpenTemp ==
  /\ ic_pc = "spill"
  /\ IF SpillNeeded(TargetHaps, haplotype_buffer_size)
     THEN \E ok \in BOOLEAN, trap \in DivisionTraps :
            IF haplotype_buffer_size = 0 /\ trap
            THEN /\ ic_pc' = "trap"
                 /\ UNCHANGED <<ret, tmp_fs, group_i>>
            ELSE IF ok
            THEN /\ tmp_fs' = tmp_fs \cup {<<"dose", GroupNumber>>}
                 /\ ic_pc' = IF args.emp_out THEN "spill_emp" ELSE "spill_unlink"
                 /\ UNCHANGED <<ret, group_i>>
            ELSE /\ ret' = "false"
                 /\ ic_pc' = "done"
                 /\ UNCHANGED <<tmp_fs, group_i>>
     ELSE /\ group_i' = group_i + haplotype_buffer_size
          /\ ic_pc' = "group"
          /\ UNCHANGED <<ret, tmp_fs>>
  /\ UNCHANGED <<args, panel, haplotype_buffer_size, group_size, dosages_, loopVars,
                 temp_files, temp_emp_files, written, target_only_sites, blockVars,
                 reducedVars, runVars>>

\* mkstemp for the empirical dosage temp file
OpenEmpTemp ==
  /\ ic_pc = "spill_emp"
  /\ \E ok \in BOOLEAN :
       IF ok
       THEN /\ tmp_fs' = tmp_fs \cup {<<"emp", GroupNumber>>}
            /\ ic_pc' = "spill_unlink"
            /\ UNCHANGED ret
       ELSE /\ ret' = "false"
            /\ ic_pc' = "done"
            /\ UNCHANGED tmp_fs
  /\ UNCHANGED <<args, panel, haplotype_buffer_size, group_i, group_size, dosages_,
                 loopVars, temp_files, temp_emp_files, written, target_only_sites,
                 blockVars, reducedVars, runVars>>

\* the temp writer is opened, the files join the lists of readers and their
\* names are removed
UnlinkTemp ==
  /\ ic_pc = "spill_unlink"
  /\ temp_files' = Append(temp_files, GroupNumber)
  /\ temp_emp_files' = IF args.emp_out THEN Append(temp_emp_files, GroupNumber)
                       ELSE temp_emp_files
  /\ tmp_fs' = tmp_fs \ {<<"dose", GroupNumber>>, <<"emp", GroupNumber>>}
  /\ ic_pc' = "temp_write"
  /\ UNCHANGED <<args, panel, haplotype_buffer_size, group_i, group_size, dosages_,
                 loopVars, written, target_only_sites, ret, blockVars, reducedVars, runVars>>

SampleRangeBug(from, to, ploidy) == <<from, to>>

\* {sample_ids.begin() + (i / ploidy), sample_ids.begin() + (i + group_size) / ploidy}
SampleRange(from, to, ploidy) == <<from \div ploidy, to \div ploidy>>

WriteRecord(kind, from, to) ==
  [kind |-> kind, from |-> from, to |-> to, dosages |-> dosages_,
   target_only |-> target_only_sites, files |-> temp_files, emp_files |-> temp_emp_files,
   samples |-> SampleRange(from, to, panel.ploidy)]

\* temp_output.write_dosages(..., {i, i + group_size}, ...) returns
TempWrite ==
  /\ ic_pc = "temp_write"
  /\ \E ok \in BOOLEAN :
       IF ok
       THEN /\ written' = Append(written,
                            WriteRecord("temp", group_i, group_i + group_size))
            /\ group_i' = group_i + haplotype_buffer_size
            /\ ic_pc' = "group"
            /\ UNCHANGED ret
       ELSE /\ ret' = "false"
            /\ ic_pc' = "done"
            /\ UNCHANGED <<written, group_i>>
  /\ UNCHANGED <<args, panel, haplotype_buffer_size, group_size, dosages_, loopVars,
                 temp_files, temp_emp_files, tmp_fs, target_only_sites, blockVars,
                 reducedVars, runVars>>

HasTempFilesBug(tf) == FALSE

\* temp_files.size()
HasTempFiles(tf) == tf # <<>>

\* after the groups: merge the temp files, or write the one group, or nothing
Output ==
  /\ ic_pc = "output"
  /\ IF HasTempFiles(temp_files)
     THEN ic_pc' = "merge" /\ UNCHANGED ret
     ELSE LET n_tar_haps == IF panel.typed_size > 0 \/ target_only_sites > 0
                            THEN TargetHaps ELSE 0
          IN IF n_tar_haps > 0 THEN ic_pc' = "final_write" /\ UNCHANGED ret
             ELSE ic_pc' = "done" /\ ret' = "true"
  /\ UNCHANGED <<args, panel, haplotype_buffer_size, group_i, group_size, dosages_,
                 loopVars, fileSysVars, target_only_sites, blockVars, reducedVars, runVars>>

\* output.merge_temp_files(temp_files, temp_emp_files) returns
MergeTempFiles ==
  /\ ic_pc = "merge"
  /\ \E ok \in BOOLEAN :
       /\ written' = IF ok THEN Append(written, WriteRecord("merge", 0, TargetHaps))
                     ELSE written
       /\ ret' = IF ok THEN "true" ELSE "false"
  /\ ic_pc' = "done"
  /\ UNCHANGED <<args, panel, haplotype_buffer_size, group_i, group_size, dosages_,
                 loopVars, temp_files, temp_emp_files, tmp_fs, target_only_sites,
                 blockVars, reducedVars, runVars>>

\* output.write_dosages(..., {0, n_tar_haps}, ...) returns
FinalWrite ==
  /\ ic_pc = "final_write"
  /\ \E ok \in BOOLEAN :
       /\ written' = IF ok THEN Append(written, WriteRecord("final", 0, TargetHaps))
                     ELSE written
       /\ ret' = IF ok THEN "true" ELSE "false"
  /\ ic_pc' = "done"
  /\ UNCHANGED <<args, panel, haplotype_buffer_size, group_i, group_size, dosages_,
                 loopVars, temp_files, temp_emp_files, tmp_fs, target_only_sites,
                 blockVars, reducedVars, runVars>>

\* the target panels of a run: haploid or diploid samples, a diploid panel
\* possibly with one haploid sample whose second slot is padding
Panels ==
  {[n_samples |-> s, ploidy |-> p, eov |-> e, full_size |-> f, typed_size |-> t,
    n_target_only |-> o] :
     s \in 1..MaxSamples, p \in 1..2, e \in {{}, {1}}, f \in {0, 4}, t \in {0, 2},
     o \in 0..1}

Arguments ==
  {[temp_buffer |-> b, threads |-> t, min_ratio |-> [num |-> 1, den |-> 4],
    fail_min_ratio |-> f, emp_out |-> e, all_typed_sites |-> a] :
     b \in 1..MaxTempBuffer, t \in 1..MaxThreads, f \in BOOLEAN, e \in BOOLEAN,
     a \in BOOLEAN}

InitImpute ==
  /\ InitBlockWith(1, 1)
  /\ ploidy_eov = {}
  /\ InitReducedWith(1, 1, 1)
  /\ \E a \in Arguments, p \in Panels :
       /\ p.eov # {} => p.ploidy = 2
       /\ p.full_size = 0 => p.typed_size = 0
       \* an argument that is never read takes one value
       /\ a.fail_min_ratio => RatioBelow(p.typed_size, p.full_size, a.min_ratio)
       /\ a.all_typed_sites => p.n_target_only > 0
       /\ a.emp_out => p.n_samples > a.temp_buffer
       \* the empirical temp file is handled after the pool has joined: it is
       \* followed with one thread
       /\ a.emp_out => a.threads = 1
       \* so are the target-only sites, which the parallel loop does not touch
       /\ p.n_target_only > 0 => a.threads = 1
       /\ InitImputeWith(a, p)
  /\ NoRun

Worker == DOMAIN worker

NextImpute ==
  \/ LoadFails \/ Prepare \/ GroupBegin \/ FillEov \/ LoopStart
  \/ (\E w \in Worker : TaskStart(w))
  \/ (\E w \in Worker : ForwardDone(w))
  \/ (\E w \in Worker : BackwardDone(w))
  \/ LoopJoin \/ OpenTemp \/ OpenEmpTemp \/ UnlinkTemp \/ TempWrite
  \/ Output \/ MergeTempFiles \/ FinalWrite

SpecImpute == InitImpute /\ [][NextImpute]_vars

\* ------------------------------------------------------------------------
\* the chunk loop of the run (run_main.cpp)
\* ------------------------------------------------------------------------
\* the log of chunks keeps the first MaxChunks chunks of a run; a region of
\* MaxEndPos positions has no more chunks of one position or more
MaxChunks == MaxEndPos

\* chunk_end_pos
ChunkEnd(start) == Min(end_pos, start + chunk_size - 1)

RunStopsBug(r) == FALSE

\* if (!imputer.impute_chunk(...)) return EXIT_FAILURE
RunStops(r) == r = "false"

\* the panels another region of the same files can load
RegionPanels(p0) ==
  {p \in Panels : /\ p.n_samples = p0.n_samples /\ p.ploidy = p0.ploidy
                  /\ p.eov # {} => p.ploidy = 2
                  /\ p.full_size = 0 => p.typed_size = 0}

\* impute_chunk is entered for the next region: its locals start afresh
EnterChunk(p) ==
  /\ panel' = p
  /\ ic_pc' = "load"
  /\ haplotype_buffer_size' = 0
  /\ group_i' = 0
  /\ group_size' = 0
  /\ dosages_' = <<>>
  /\ target_only_sites' = p.n_target_only
  /\ ret' = "none"
  /\ pending' = {}
  /\ col_writes' = {}
  /\ finished' = {}
  /\ skipped' = {}
  /\ temp_files' = <<>>
  /\ temp_emp_files' = <<>>
  /\ written' = <<>>
  /\ UNCHANGED <<args, worker, hmm_busy, tmp_fs>>

\* impute_chunk returned to the chunk loop
ChunkReturn ==
  /\ ic_pc \in {"done", "load_failed"}
  /\ exit_code = "none"
  /\ chunk_log' =
       IF Len(chunk_log) < MaxChunks
       THEN Append(chunk_log,
              [from |-> chunk_start_pos, to |-> ChunkEnd(chunk_start_pos), ret |-> ret,
               low |-> /\ ic_pc = "done" /\ panel.full_size > 0
                       /\ RatioBelow(panel.typed_size, panel.full_size, args.min_ratio)])
       ELSE chunk_log
  /\ IF RunStops(ret)
     THEN /\ exit_code' = "EXIT_FAILURE"
          /\ UNCHANGED <<chunk_start_pos, args, panel, ic_pc, haplotype_buffer_size,
                         group_i, group_size, dosages_, target_only_sites, ret,
                         loopVars, fileSysVars>>
     ELSE /\ chunk_start_pos' = chunk_start_pos + chunk_size
          /\ IF chunk_start_pos + chunk_size <= end_pos
             THEN /\ \E p \in RegionPanels(panel) : EnterChunk(p)
                  /\ UNCHANGED exit_code
             ELSE /\ exit_code' = "EXIT_SUCCESS"
                  /\ UNCHANGED <<args, panel, ic_pc, haplotype_buffer_size, group_i,
                                 group_size, dosages_, target_only_sites, ret,
                                 loopVars, fileSysVars>>
  /\ UNCHANGED <<end_pos, chunk_size, blockVars, reducedVars, argVars, resultVars,
                 prepVars>>

\* a run on one pool thread with --temp-buffer 1 over a region of two chunks
InitRun ==
  /\ InitBlockWith(1, 1)
  /\ ploidy_eov = {}
  /\ InitReducedWith(1, 1, 1)
  /\ \E a \in Arguments, p \in Panels :
       /\ a.threads = 1 /\ a.temp_buffer = 1
       /\ p.n_samples < MaxSamples
       /\ p \in RegionPanels(p)
       /\ InitImputeWith(a, p)
  /\ chunk_start_pos \in 1..2
  /\ end_pos = MaxEndPos
  /\ chunk_size \in 2..3
  /\ exit_code = "none"
  /\ chunk_log = <<>>
  /\ NoParse
  /\ NoResults
  /\ NoPrep

NextRun == NextImpute \/ ChunkReturn

SpecRun == InitRun /\ [][NextRun]_vars

\* ------------------------------------------------------------------------
\* prog_args::parse
\* ------------------------------------------------------------------------
Digits == {"0", "1", "2", "3", "4", "5", "6", "7", "8", "9"}

DigitValue(c) ==
  CASE c = "0" -> 0 [] c = "1" -> 1 [] c = "2" -> 2 [] c = "3" -> 3 [] c = "4" -> 4
    [] c = "5" -> 5 [] c = "6" -> 6 [] c = "7" -> 7 [] c = "8" -> 8 [] c = "9" -> 9

\* the leading decimal digits of s: their value after acc, and how many
RECURSIVE LeadingDigits(_, _, _)
LeadingDigits(s, acc, n) ==
  IF s = <<>> \/ Head(s) \notin Digits THEN [value |-> acc, count |-> n, rest |-> s]
  ELSE LeadingDigits(Tail(s), acc * 10 + DigitValue(Head(s)), n + 1)

RECURSIVE Pow10(_)
Pow10(n) == IF n = 0 THEN 1 ELSE 10 * Pow10(n - 1)

\* std::atoll: an optional sign, then digits up to the first other character
Atoll(s) ==
  IF s # <<>> /\ Head(s) = "-" THEN 0 - LeadingDigits(Tail(s), 0, 0).value
  ELSE LeadingDigits(s, 0, 0).value

\* std::atof on a plain decimal: sign, digits, optionally a point and digits
Atof(s) ==
  LET neg == s # <<>> /\ Head(s) = "-"
      int == LeadingDigits(IF neg THEN Tail(s) ELSE s, 0, 0)
      frac == IF int.rest # <<>> /\ Head(int.rest) = "."
              THEN LeadingDigits(Tail(int.rest), int.value, 0)
              ELSE [value |-> int.value, count |-> 0, rest |-> int.rest]
  IN [num |-> IF neg THEN 0 - frac.value ELSE frac.value, den |-> Pow10(frac.count)]

Max(a, b) == IF a > b THEN a ELSE b

\* std::min(1., std::max(0., x))
ClampRatio(x) ==
  IF x.num < 0 THEN [num |-> 0, den |-> 1]
  ELSE IF x.num > x.den THEN [num |-> 1, den |-> 1] ELSE x

\* the narrowing of an int to std::int16_t
ToInt16(n) == ((n + 32768) % 65536) - 32768

\* the branch of the switch in parse taken for one option: what it leaves in
\* the fields of prog_args
ParseOption(pa, name, optarg) ==
  CASE name = "all-typed-sites" -> [pa EXCEPT !.all_typed_sites_ = TRUE]
    [] name = "temp-buffer" -> [pa EXCEPT !.temp_buffer_ = Atoll(optarg)]
    [] name = "chunk" -> [pa EXCEPT !.chunk_size_ = Atoll(optarg)]
    [] name = "map" -> [pa EXCEPT !.map_path_ = optarg]
    [] name = "threads" -> [pa EXCEPT !.threads_ = ToInt16(Atoll(optarg))]
    [] name = "overlap" -> [pa EXCEPT !.overlap_ = Atoll(optarg)]
    [] name = "allTypedSites" -> [pa EXCEPT !.all_typed_sites_ = TRUE]
    [] name = "min-ratio" -> [pa EXCEPT !.min_ratio_ = ClampRatio(Atof(optarg))]
    [] name = "min-ratio-behavior" ->
         [pa EXCEPT !.fail_min_ratio_ = (optarg = <<"f", "a", "i", "l">>)]
    [] name \in {"min-block-size", "max-block-size", "slope-unit"} ->
         [pa EXCEPT !.min_ratio_ = [num |-> Max(1, Atoll(optarg)), den |-> 1]]
    [] name = "mapFile" -> [pa EXCEPT !.map_path_ = optarg]
    [] name = "window" -> [pa EXCEPT !.overlap_ = Atoll(optarg)]
    [] name = "cpus" -> [pa EXCEPT !.threads_ = ToInt16(Atoll(optarg))]
    [] name = "minRatio" -> [pa EXCEPT !.min_ratio_ = Atof(optarg)]

\* one turn of the getopt_long loop of parse
GetoptLong ==
  /\ argv # <<>>
  /\ prog_args' = ParseOption(prog_args, Head(argv).name, Head(argv).optarg)
  /\ argv' = Tail(argv)
  /\ UNCHANGED <<blockVars, reducedVars, args, panel, ic_pc, haplotype_buffer_size,
                 group_i, group_size, dosages_, target_only_sites, ret, loopVars,
                 fileSysVars, chunk_start_pos, end_pos, chunk_size, exit_code,
                 chunk_log, resultVars, prepVars>>

IntegerOptargs == {<<"-", "1">>, <<"0">>, <<"1">>, <<"3">>, <<"1", "2">>, <<"x">>}

RatioOptargs == {<<"-", "1">>, <<"0", ".", "2", "5">>, <<"2">>}

BlockOptions == {"min-block-size", "max-block-size", "slope-unit"}

Options ==
  {[name |-> n, optarg |-> o] : n \in BlockOptions, o \in IntegerOptargs}
  \cup {[name |-> "min-ratio", optarg |-> o] : o \in RatioOptargs}
  \cup {[name |-> "min-ratio-behavior", optarg |-> o] :
          o \in {<<"f", "a", "i", "l">>, <<"s", "k", "i", "p">>}}

\* a command line of up to MaxArgs of the options modelled
InitArgs ==
  /\ InitBlockWith(1, 1)
  /\ ploidy_eov = {}
  /\ InitReducedWith(1, 1, 1)
  /\ InitImputeWith(NoArgs, NoPanel)
  /\ chunk_start_pos = 1 /\ end_pos = 1 /\ chunk_size = 1
  /\ exit_code = "none" /\ chunk_log = <<>>
  /\ prog_args = DefaultArgs
  /\ \E n \in 1..MaxArgs : argv \in [1..n -> Options]
  /\ NoResults
  /\ NoPrep

NextArgs == GetoptLong

\* the deprecated options that have a current option, and that option
Deprecated ==
  {<<"allTypedSites", "all-typed-sites">>, <<"mapFile", "map">>, <<"window", "overlap">>,
   <<"cpus", "threads">>, <<"minRatio", "min-ratio">>}

CurrentOption(name) == (CHOOSE d \in Deprecated : d[1] = name)[2]

\* what an option of the modelled command lines may be given as its argument
OptargsOf(name) ==
  CASE name \in {"allTypedSites", "all-typed-sites"} -> {<<>>}
    [] name \in {"mapFile", "map"} -> {<<"a">>, <<"b">>}
    [] name \in {"minRatio", "min-ratio"} -> RatioOptargs
    [] OTHER -> IntegerOptargs

RemappedOptions ==
  UNION {{[name |-> n, optarg |-> o] : o \in OptargsOf(n)} :
           n \in {d[1] : d \in Deprecated} \cup {d[2] : d \in Deprecated}}

\* a command line of deprecated options and the options that replaced them
InitDeprecated ==
  /\ InitBlockWith(1, 1)
  /\ ploidy_eov = {}
  /\ InitReducedWith(1, 1, 1)
  /\ InitImputeWith(NoArgs, NoPanel)
  /\ chunk_start_pos = 1 /\ end_pos = 1 /\ chunk_size = 1
  /\ exit_code = "none" /\ chunk_log = <<>>
  /\ prog_args = DefaultArgs
  /\ \E n \in 1..MaxArgs : argv \in [1..n -> RemappedOptions]
  /\ NoResults
  /\ NoPrep

SpecDeprecated == InitDeprecated /\ [][NextArgs]_vars

\* the arguments --chunk is given on the modelled command lines; std::atoll
\* takes each of them
ChunkOptargs == {<<"0">>, <<"1">>, <<"3">>, <<"1", "2">>, <<"x">>}

\* a run whose chunk size is what parse left in chunk_size_
InitChunks ==
  /\ InitBlockWith(1, 1)
  /\ ploidy_eov = {}
  /\ InitReducedWith(1, 1, 1)
  /\ \E a \in Arguments, p \in Panels :
       /\ a.threads = 1 /\ a.temp_buffer = 1
       /\ p.n_samples < MaxSamples
       /\ p \in RegionPanels(p)
       /\ InitImputeWith(a, p)
  /\ \E o \in ChunkOptargs :
       /\ prog_args = ParseOption(DefaultArgs, "chunk", o)
       /\ chunk_size = ParseOption(DefaultArgs, "chunk", o).chunk_size_
  /\ argv = <<>>
  /\ chunk_start_pos \in 1..2
  /\ end_pos = MaxEndPos
  /\ exit_code = "none"
  /\ chunk_log = <<>>
  /\ NoResults
  /\ NoPrep

\* the run goes on as long as it has a step to take
SpecChunks == InitChunks /\ [][NextRun]_vars /\ WF_vars(NextRun)

\* the arguments --temp-buffer is given on the modelled command lines;
\* std::atoll takes each of them
TempBufferOptargs == {<<"0">>, <<"1">>, <<"2">>, <<"x">>}

\* a chunk whose temp_buffer is what parse left in temp_buffer_
InitGroups ==
  /\ InitBlockWith(1, 1)
  /\ ploidy_eov = {}
  /\ InitReducedWith(1, 1, 1)
  /\ \E a \in Arguments, p \in Panels, o \in TempBufferOptargs :
       LET parsed == ParseOption(DefaultArgs, "temp-buffer", o) IN
       /\ a.temp_buffer = 1 /\ ~a.fail_min_ratio /\ ~a.all_typed_sites
       /\ p.eov # {} => p.ploidy = 2
       /\ p.full_size = 0 => p.typed_size = 0
       /\ a.emp_out => p.n_samples > parsed.temp_buffer_
       /\ InitImputeWith([a EXCEPT !.temp_buffer = parsed.temp_buffer_], p)
       /\ prog_args = parsed
  /\ argv = <<>>
  /\ NoResults
  /\ NoPrep
  /\ chunk_start_pos = 1
  /\ end_pos = 1
  /\ chunk_size = 1
  /\ exit_code = "none"
  /\ chunk_log = <<>>

SpecGroups == InitGroups /\ [][NextImpute]_vars

SpecArgs == InitArgs /\ [][NextArgs]_vars

\* ------------------------------------------------------------------------
\* full_dosages_results
\* ------------------------------------------------------------------------
\* std::vector::resize(n, row): the rows kept stay as they are, new rows are
\* copies of a row of n_columns end-of-vector values
ResizeRows(m, n, n_columns) ==
  [k \in 1..n |-> IF k <= Len(m) THEN m[k] ELSE [c \in 1..n_columns |-> EOV]]

\* resize(n_rows, n_loo_rows, n_columns)
Resize(n_rows, n_loo_rows, n_columns) ==
  /\ results' = [dosages_ |-> ResizeRows(results.dosages_, n_rows, n_columns),
                 loo_dosages_ |-> ResizeRows(results.loo_dosages_, n_loo_rows, n_columns)]
  /\ last_dims' = [op |-> "resize", dims |-> <<0, 0>>]
  /\ UNCHANGED <<blockVars, reducedVars, args, panel, ic_pc, haplotype_buffer_size,
                 group_i, group_size, dosages_, target_only_sites, ret, loopVars,
                 fileSysVars, chunk_start_pos, end_pos, chunk_size, exit_code,
                 chunk_log, argVars, prepVars>>

\* dimensions()
Dimensions(r) ==
  <<Len(r.dosages_), IF r.dosages_ = <<>> THEN 0 ELSE Len(r.dosages_[1])>>

\* dimensions_loo()
DimensionsLoo(r) ==
  <<Len(r.dosages_), IF r.dosages_ = <<>> THEN 0 ELSE Len(r.dosages_[1])>>

CallDimensions ==
  /\ last_dims' = [op |-> "dimensions", dims |-> Dimensions(results)]
  /\ UNCHANGED results
  /\ UNCHANGED <<blockVars, reducedVars, args, panel, ic_pc, haplotype_buffer_size,
                 group_i, group_size, dosages_, target_only_sites, ret, loopVars,
                 fileSysVars, chunk_start_pos, end_pos, chunk_size, exit_code,
                 chunk_log, argVars, prepVars>>

CallDimensionsLoo ==
  /\ last_dims' = [op |-> "dimensions_loo", dims |-> DimensionsLoo(results)]
  /\ UNCHANGED results
  /\ UNCHANGED <<blockVars, reducedVars, args, panel, ic_pc, haplotype_buffer_size,
                 group_i, group_size, dosages_, target_only_sites, ret, loopVars,
                 fileSysVars, chunk_start_pos, end_pos, chunk_size, exit_code,
                 chunk_log, argVars, prepVars>>

InitResults ==
  /\ InitBlockWith(1, 1)
  /\ ploidy_eov = {}
  /\ InitReducedWith(1, 1, 1)
  /\ InitImputeWith(NoArgs, NoPanel)
  /\ chunk_start_pos = 1 /\ end_pos = 1 /\ chunk_size = 1
  /\ exit_code = "none" /\ chunk_log = <<>>
  /\ NoParse
  /\ NoResults
  /\ NoPrep

NextResults ==
  \/ \E n_rows \in 0..MaxRows, n_loo_rows \in 0..MaxRows, n_columns \in 0..MaxColumns :
       Resize(n_rows, n_loo_rows, n_columns)
  \/ CallDimensions
  \/ CallDimensionsLoo

SpecResults == InitResults /\ [][NextResults]_vars

\* ------------------------------------------------------------------------
\* separate_target_only_variants
\* ------------------------------------------------------------------------
\* a default-constructed target_variant, left behind by a swap
MovedFrom == [id |-> 0, in_ref |-> FALSE]

SwapSitesBug(ts, a, b) == ts

\* std::swap(target_sites[a], target_sites[b]), indices from 0
SwapSites(ts, a, b) ==
  [k \in 1..Len(ts) |-> IF k = a + 1 THEN ts[b + 1]
                        ELSE IF k = b + 1 THEN ts[a + 1] ELSE ts[k]]

\* everything but the call of separate_target_only_variants
SeparationFrame ==
  UNCHANGED <<blockVars, reducedVars, args, panel, ic_pc, haplotype_buffer_size,
              group_i, group_size, dosages_, target_only_sites, ret, loopVars,
              fileSysVars, chunk_start_pos, end_pos, chunk_size, exit_code,
              chunk_log, argVars, resultVars, recom_load, hmm>>

\* one pass of the loop over target_sites: a site absent from the reference
\* is swapped into a new last element of the returned vector, a site of the
\* reference is swapped down to shift_idx
SeparateStep ==
  /\ separation.pc = "loop"
  /\ separation.i < Len(separation.target_sites)
  /\ LET ts == separation.target_sites
         i == separation.i
         shift == separation.shift_idx
     IN separation' =
          IF ~ts[i + 1].in_ref
          THEN [separation EXCEPT
                  !.target_only_sites = Append(@, ts[i + 1]),
                  !.target_sites = [ts EXCEPT ![i + 1] = MovedFrom],
                  !.i = i + 1]
          ELSE [separation EXCEPT
                  !.target_sites = IF i # shift THEN SwapSites(ts, i, shift) ELSE ts,
                  !.shift_idx = shift + 1,
                  !.i = i + 1]
  /\ SeparationFrame

\* target_sites.resize(shift_idx); return target_only_sites
SeparateReturn ==
  /\ separation.pc = "loop"
  /\ separation.i >= Len(separation.target_sites)
  /\ separation' = [separation EXCEPT
                      !.target_sites = SubSeq(@, 1, separation.shift_idx),
                      !.pc = "done"]
  /\ SeparationFrame

\* the target sites of a chunk in file order, each found in the reference or not
SiteLists ==
  UNION {{[k \in 1..n |-> [id |-> k, in_ref |-> f[k]]] : f \in [1..n -> BOOLEAN]} :
           n \in 0..MaxSites}

InitSeparate ==
  /\ InitBlockWith(1, 1)
  /\ ploidy_eov = {}
  /\ InitReducedWith(1, 1, 1)
  /\ InitImputeWith(NoArgs, NoPanel)
  /\ chunk_start_pos = 1 /\ end_pos = 1 /\ chunk_size = 1
  /\ exit_code = "none" /\ chunk_log = <<>>
  /\ NoParse
  /\ NoResults
  /\ recom_load = NoRecomLoad
  /\ hmm = NoHmm
  /\ \E ts \in SiteLists :
       separation = [pc |-> "loop", input |-> ts, target_sites |-> ts,
                     target_only_sites |-> <<>>, i |-> 0, shift_idx |-> 0]

NextSeparate == SeparateStep \/ SeparateReturn

SpecSeparate == InitSeparate /\ [][NextSeparate]_vars

\* ------------------------------------------------------------------------
\* load_reference_haplotypes: recombination probabilities
\* ------------------------------------------------------------------------
\* probabilities are counted in units of 1e-4
ProbUnit == 10000

\* recombination::cm_to_switch_prob, 1 - exp(-cm / 100), at the genetic
\* distances used (in 1/1000 cM)
CmToSwitchProb(milli_cm) ==
  CASE milli_cm = 0 -> 0
    [] milli_cm = 10 -> 1
    [] milli_cm = 1000 -> 99
    [] milli_cm = 70000 -> 5034
    [] milli_cm = 100000 -> 6321

\* the probability of a switch between two typed variants from the per-site
\* recom fields of the reference sites between them: the cM of the sites add
\* up, so the probabilities of no switch multiply
RECURSIVE NoSwitchProb(_)
NoSwitchProb(recoms) ==
  IF recoms = <<>> THEN ProbUnit
  ELSE ((ProbUnit - Head(recoms)) * NoSwitchProb(Tail(recoms))) \div ProbUnit

RecomFromSites(recoms) == ProbUnit - NoSwitchProb(recoms)

ClampRecomBug(p, recom_min) == IF p < recom_min THEN recom_min ELSE p

\* recom is clamped to [recom_min, 0.5]
ClampRecom(p, recom_min) ==
  IF p < recom_min THEN recom_min
  ELSE IF p > ProbUnit \div 2 THEN ProbUnit \div 2 ELSE p

\* the probability before clamping, from the map or from the reference
GapProb(mode, gap) ==
  IF mode = "map" THEN CmToSwitchProb(gap) ELSE RecomFromSites(gap)

RecomFrame ==
  UNCHANGED <<blockVars, reducedVars, args, panel, ic_pc, haplotype_buffer_size,
              group_i, group_size, dosages_, target_only_sites, ret, loopVars,
              fileSysVars, chunk_start_pos, end_pos, chunk_size, exit_code,
              chunk_log, argVars, resultVars, separation, hmm>>

\* the recom of a typed variant that has a next typed variant
SetRecom ==
  /\ recom_load.pc = "fill"
  /\ recom_load.k < Len(recom_load.recom)
  /\ recom_load' =
       [recom_load EXCEPT
          !.recom[recom_load.k] =
             ClampRecom(GapProb(recom_load.mode, recom_load.gaps[recom_load.k]),
                        recom_load.recom_min),
          !.k = @ + 1]
  /\ RecomFrame

\* the recom of the last typed variant
SetLastRecom ==
  /\ recom_load.pc = "fill"
  /\ recom_load.k = Len(recom_load.recom)
  /\ recom_load' = [recom_load EXCEPT !.recom[recom_load.k] = 0, !.pc = "done"]
  /\ RecomFrame

\* genetic distances between adjacent typed variants read off the map
MapGaps == {0, 10, 1000, 70000, 100000}

\* recom fields of the reference sites from a typed variant to the next
SiteGaps == {<<0>>, <<99>>, <<3000, 4000>>, <<5000>>}

\* --min-recom after parsing: within [0, 0.5]
RecomMins == {0, 1, 5000}

InitRecom ==
  /\ InitBlockWith(1, 1)
  /\ ploidy_eov = {}
  /\ InitReducedWith(1, 1, 1)
  /\ InitImputeWith(NoArgs, NoPanel)
  /\ chunk_start_pos = 1 /\ end_pos = 1 /\ chunk_size = 1
  /\ exit_code = "none" /\ chunk_log = <<>>
  /\ NoParse
  /\ NoResults
  /\ separation = NoSeparation
  /\ hmm = NoHmm
  /\ \E mode \in {"map", "sites"}, mn \in RecomMins, n \in 1..MaxTyped :
       \E gaps \in [1..(n - 1) -> IF mode = "map" THEN MapGaps ELSE SiteGaps] :
         recom_load = [pc |-> "fill", mode |-> mode, recom_min |-> mn, gaps |-> gaps,
                       recom |-> [k \in 1..n |-> Unset], k |-> 1]

NextRecom == SetRecom \/ SetLastRecom

SpecRecom == InitRecom /\ [][NextRecom]_vars

\* ------------------------------------------------------------------------
\* hidden_markov_model: condition and transpose
\* ------------------------------------------------------------------------
\* probabilities are whole numbers of a small unit; the threshold for a
\* precision jump and the factor of the rescale, in that unit
jump_threshold == 8

jump_fix == 16

\* the unique columns of the block traversed: how many templates each stands
\* for, and the allele each carries at every site
uniq_cardinalities == <<1, 3>>

template_haps == <<0, 1>>

n_templates == SumSeq(uniq_cardinalities)

\* condition: a column that carries the observed allele is multiplied by
\* pmatch (9/10 here), any other by prandom (1/10); a missing observed allele
\* leaves the probabilities as they are
Condition(probs, observed) ==
  IF observed < 0 THEN probs
  ELSE [s \in 1..Len(probs) |->
          IF template_haps[s] = observed THEN (probs[s] * 9) \div 10
          ELSE probs[s] \div 10]

\* the sum of the incoming probabilities over the templates
IncomingSum(from) == DotSeq(from, uniq_cardinalities)

JumpNeededBug(sum) == sum <= 0

\* sum < jump_threshold
JumpNeeded(sum) == sum < jump_threshold

\* transpose with recombination recom / 2: each column keeps (1 - r) of its
\* probability and receives r of the sum in proportion to its cardinality;
\* all of it times jump_fix when the sum is below the threshold
Transpose(from, recom) ==
  LET sum == IncomingSum(from)
      jumped == JumpNeeded(sum)
      scale == IF jumped THEN jump_fix ELSE 1
  IN [to |-> [s \in 1..Len(from) |->
                scale * (((2 - recom) * from[s]) \div 2
                         + (recom * sum * uniq_cardinalities[s]) \div (2 * n_templates))],
      scale |-> scale,
      ret |-> jumped]

\* transpose of the probabilities kept without recombination
TransposeNoRecom(from_norecom, jumped) ==
  [s \in 1..Len(from_norecom) |-> (IF jumped THEN jump_fix ELSE 1) * from_norecom[s]]

HmmFrame ==
  UNCHANGED <<blockVars, reducedVars, args, panel, ic_pc, haplotype_buffer_size,
              group_i, group_size, dosages_, target_only_sites, ret, loopVars,
              fileSysVars, chunk_start_pos, end_pos, chunk_size, exit_code,
              chunk_log, argVars, resultVars, separation, recom_load>>

\* traverse_forward conditions the probabilities at variant i on the observed
\* allele
HmmCondition ==
  /\ hmm.pc = "condition"
  /\ LET o == hmm.obs[hmm.i]
         p == Condition(hmm.probs, o)
         q == Condition(hmm.norecom, o)
     IN hmm' = [hmm EXCEPT
                  !.probs = p, !.norecom = q,
                  !.last_condition = [i |-> hmm.i, observed |-> o,
                                      probs |-> hmm.probs, norecom |-> hmm.norecom],
                  !.pc = IF hmm.i < Len(hmm.obs) THEN "transpose" ELSE "done"]
  /\ HmmFrame

\* traverse_forward moves on from variant i and notes whether transpose
\* rescaled
HmmTranspose ==
  /\ hmm.pc = "transpose"
  /\ LET t == Transpose(hmm.probs, hmm.recom)
     IN hmm' = [hmm EXCEPT
                  !.probs = t.to,
                  !.norecom = TransposeNoRecom(hmm.norecom, t.ret),
                  !.precision_jumps_[hmm.i] = t.ret,
                  !.rescaled = IF t.scale # 1 THEN @ \cup {hmm.i} ELSE @,
                  !.last_transpose = [i |-> hmm.i, from |-> hmm.probs,
                                      scale |-> t.scale, ret |-> t.ret],
                  !.i = @ + 1,
                  !.pc = "condition"]
  /\ HmmFrame

InitialProbs == {<<40, 40>>, <<8, 4>>, <<1, 1>>, <<0, 0>>}

InitHmm ==
  /\ InitBlockWith(1, 1)
  /\ ploidy_eov = {}
  /\ InitReducedWith(1, 1, 1)
  /\ InitImputeWith(NoArgs, NoPanel)
  /\ chunk_start_pos = 1 /\ end_pos = 1 /\ chunk_size = 1
  /\ exit_code = "none" /\ chunk_log = <<>>
  /\ NoParse
  /\ NoResults
  /\ separation = NoSeparation
  /\ recom_load = NoRecomLoad
  /\ \E n \in 1..MaxHmmSites, p \in InitialProbs, r \in 0..1 :
       \E obs \in [1..n -> {-1, 0, 1}] :
         hmm = [pc |-> "condition", i |-> 1, probs |-> p, norecom |-> p, obs |-> obs,
                recom |-> r, precision_jumps_ |-> [k \in 1..n |-> FALSE],
                rescaled |-> {},
                last_condition |-> [i |-> 0], last_transpose |-> [i |-> 0]]

NextHmm == HmmCondition \/ HmmTranspose

SpecHmm == InitHmm /\ [][NextHmm]_vars

Spec == SpecBlock

\* ------------------------------------------------------------------------
\* Properties of unique_haplotype_block
\* ------------------------------------------------------------------------
RealSlots == {h \in 1..Len(unique_map_) : ~IsEov(unique_map_[h])}

Thm_C2 ==
  /\ Len(supplied) = Len(variants_)
  /\ \A k \in 1..Len(variants_) : \A h \in RealSlots :
       variants_[k].gt[unique_map_[h] + 1] = supplied[k][h]

\* a slot sits in a column that a later variant split off
Wit_C2 == Len(variants_) >= 2 /\ \E h \in RealSlots : unique_map_[h] >= 2

\* what the contract names as a rejected input; the first variant of a block
\* establishes unique_map, so the two comparisons with it apply to a block that
\* holds a variant
RejectedInput(a) ==
  \/ a = <<>>
  \/ /\ variants_ # <<>>
     /\ \/ Len(a) # Len(unique_map_)
        \/ \E h \in 1..Len(a) : IsEov(a[h]) # IsEov(unique_map_[h])

\* C3: compress_variant returns false when the allele vector is empty, when its
\* length differs from the unique_map length, or when an end-of-vector allele
\* sits at a slot where earlier variants had none (or the reverse); in every
\* other case it returns true and the variant count grows by exactly one.
Thm_C3 ==
  [][last_op' = "compress_variant" =>
       /\ last_ret' = ~RejectedInput(last_alleles')
       /\ last_ret' => Len(variants_') = Len(variants_) + 1]_vars

\* a call was rejected by a block that holds two variants
Wit_C3 == ~last_ret /\ Len(variants_) = 2

\* what holds of the block and the value deserialize last returned
RoundTrip ==
  /\ (closed /\ ~damaged /\ n_deser >= 1 /\ in_ret > 0) =>
       (/\ ThisBlock = out_blocks[n_deser]
        /\ in_ret = Len(out_blocks[n_deser].variants) + 1)
  /\ (in_ret = 0) => (in_pos > Len(stream) /\ (damaged \/ n_deser = Len(out_blocks)))
  /\ (in_ret < 0) => damaged
  /\ (damaged /\ in_pos > Len(stream)) => (in_ret < 0)

RECURSIVE Flatten(_)
Flatten(bs) == IF bs = <<>> THEN <<>> ELSE Head(bs).variants \o Flatten(Tail(bs))

KeyCount(vs, v) == Cardinality({i \in 1..Len(vs) : SameKey(vs[i], v)})

\* C5: an append_block whose incoming block starts with the (pos, ref, alt) of
\* the last variant of the last stored block removes that variant from the
\* stored block and then appends, so the variant occurs once in the collection;
\* any other append_block leaves the stored blocks as they were and appends.
Thm_C5 ==
  [][rh_last'.op = "append_block" =>
       LET b    == Last(blocks_')
           same == /\ blocks_ # <<>> /\ Last(blocks_).variants # <<>>
                   /\ SameKey(Last(Last(blocks_).variants), b.variants[1])
       IN /\ Len(blocks_') = Len(blocks_) + 1
          /\ same => /\ Front(blocks_') =
                          [blocks_ EXCEPT ![Len(blocks_)].variants = Front(@)]
                     /\ KeyCount(Flatten(blocks_'), b.variants[1]) = 1
          /\ ~same => Front(blocks_') = blocks_]_vars

Wit_C5 ==
  /\ rh_last.op = "append_block" /\ rh_last.popped
  /\ Len(blocks_) >= 2
  /\ blocks_[Len(blocks_) - 1].variants # <<>>
  /\ Len(Last(blocks_).variants) = 2

\* C6: after any calls of compress_variant and append_block, block_offsets_[b]
\* is the number of variants in the blocks before b, variant_size() is the
\* number of variants in all blocks, and the global_idx() of the k-th position
\* an iterator visits from begin() to end() is k (counting from 0).
Cex_C6 ==
  /\ Len(block_offsets_) = Len(blocks_)
  /\ \A b \in 1..Len(blocks_) :
       block_offsets_[b] = TotalVariants(SubSeq(blocks_, 1, b - 1))
  /\ variant_count_ = TotalVariants(blocks_)
  /\ LET it == Iteration(blocks_, IterBegin)
     IN \A k \in 1..Len(it) : GlobalIdx(block_offsets_, it[k]) = k - 1

\* C7: a block built by compress_variant never holds more than max_block_size_
\* variants; a call with flush_block = true never adds to the block that was
\* last before it, and neither does a call made while a flush is pending; and
\* when the ratio heuristic asks for a flush the current block holds at least
\* min_block_size_ variants.
WithinMax == \A b \in 1..Len(blocks_) : Len(blocks_[b].variants) <= max_block_size_

RatioFlushAboveMin ==
  (flush_block_ /\ flush_reason = "ratio") =>
     Len(Last(blocks_).variants) >= min_block_size_

Thm_C7 ==
  /\ []WithinMax
  /\ []RatioFlushAboveMin
  /\ [][(rh_last'.op = "compress_variant" /\ (rh_last'.flush \/ flush_block_)) =>
          /\ SubSeq(blocks_', 1, Len(blocks_)) = blocks_
          /\ rh_last'.ret => Len(blocks_') = Len(blocks_) + 1
          /\ ~rh_last'.ret => flush_block_']_vars

Wit_C7 ==
  /\ flush_block_ /\ flush_reason = "ratio"
  /\ Len(blocks_) >= 2
  /\ Len(Last(blocks_).variants) = min_block_size_
  /\ Len(blocks_[1].variants) < min_block_size_

GroupHaps == group_i..(group_i + group_size - 1)

InFlight == {w \in Worker : worker[w].phase # "idle"}

\* C8: among the tasks of one haplotype group, two that use the same column of
\* hmm_results are the same haplotype, so no column is written by two workers.
Thm_C8 ==
  /\ \A a, b \in col_writes : a.col = b.col => (a.h = b.h /\ a.thread = b.thread)
  /\ \A w, v \in InFlight :
       OutputColumn(worker[w].h, haplotype_buffer_size) =
         OutputColumn(worker[v].h, haplotype_buffer_size) => w = v

Wit_C8 ==
  /\ ic_pc = "parallel" /\ group_i > 0
  /\ \E a, b \in col_writes : a.thread # b.thread /\ a.h # b.h

\* C9: hmms has one element per pool thread, every task indexes it inside its
\* bounds, and no element of hmms has two traversals in flight at once.
Thm_C9 ==
  /\ DOMAIN hmm_busy = 0..(args.threads - 1)
  /\ \A w \in Worker : ThreadIndex(w) \in DOMAIN hmm_busy
  /\ \A t \in DOMAIN hmm_busy : Cardinality(hmm_busy[t]) <= 1
  /\ \A w, v \in InFlight : ThreadIndex(w) = ThreadIndex(v) => w = v

Wit_C9 ==
  \E w, v \in InFlight :
    /\ w # v /\ worker[w].phase = "forward" /\ worker[v].phase = "backward"
    /\ hmm_busy[w] = {worker[w].h} /\ hmm_busy[v] = {worker[v].h}

\* C10: while a write of results is under way (the temp write of a group, the
\* final write, the merge) no traversal is in flight and every haplotype the
\* write covers that is not padding has finished traverse_backward; and while
\* a group is being cleared or traversed, the writes of all groups before it
\* have returned and no task of another group is in flight.
Thm_C10 ==
  /\ InFlight # {} =>
       /\ ic_pc = "parallel"
       /\ \A w \in InFlight : worker[w].h \in GroupHaps
  /\ ic_pc = "temp_write" =>
       /\ pending = {} /\ InFlight = {}
       /\ (GroupHaps \ panel.eov) \subseteq finished
  /\ (ic_pc \in {"final_write", "merge"} /\ panel.full_size > 0) =>
       /\ pending = {} /\ InFlight = {}
       /\ ((0..(TargetHaps - 1)) \ panel.eov) \subseteq finished
  /\ ic_pc \in {"fill", "loop", "parallel"} =>
       /\ group_i > 0 => Len(written) = GroupNumber
       /\ \A k \in 1..Len(written) :
            /\ written[k].kind = "temp"
            /\ written[k].from = (k - 1) * haplotype_buffer_size
            /\ written[k].to <= group_i
       /\ (0..(group_i - 1)) \subseteq (finished \cup skipped)

Wit_C10 ==
  /\ ic_pc = "temp_write" /\ group_i > 0
  /\ \E a, b \in col_writes : a.thread # b.thread
  /\ Len(written) = GroupNumber

\* what the matrix of the group [from, to) holds by the inputs alone: column c
\* holds the dosages of haplotype from + c, or the sentinel for a padding slot
ExpectedDosages(from, to) ==
  [c \in 0..(to - from - 1) |-> IF (from + c) \in panel.eov THEN EOV ELSE from + c]

\* C11: the matrix handed to a writer for a haplotype group is a function of
\* the panel and of --temp-buffer alone, so it is the same for every number of
\* pool threads and every interleaving of the tasks.
Thm_C11 ==
  /\ ic_pc = "temp_write" => dosages_ = ExpectedDosages(group_i, group_i + group_size)
  /\ (ic_pc = "final_write" /\ panel.full_size > 0) =>
       dosages_ = ExpectedDosages(0, TargetHaps)
  /\ \A k \in 1..Len(written) :
       written[k].kind = "temp" =>
         written[k].dosages = ExpectedDosages(written[k].from, written[k].to)

Wit_C11 ==
  /\ args.threads = 2 /\ Len(written) = 2 /\ written[2].kind = "temp"
  /\ \E a, b \in col_writes : a.thread # b.thread /\ a.h < b.h /\ a.thread > b.thread

\* the loaded reference is not empty and typed / full is below --min-ratio
LowRatio ==
  /\ ic_pc # "load_failed"
  /\ panel.full_size > 0
  /\ panel.typed_size * args.min_ratio.den < args.min_ratio.num * panel.full_size

LowRatioOutcome ==
  LowRatio =>
    /\ ic_pc \in {"load", "done"}
    /\ finished = {} /\ skipped = {} /\ InFlight = {} /\ pending = {}
    /\ written = <<>> /\ temp_files = <<>>
    /\ ic_pc = "done" => ret = (IF args.fail_min_ratio THEN "false" ELSE "true")

\* C12: in a chunk whose reference is not empty and whose typed / full ratio
\* is below min_ratio, impute_chunk returns false under behaviour "fail"; under
\* "skip" it returns true, having run no traversal and written nothing, and the
\* chunk loop goes on to the next chunk if there is one.
Thm_C12 ==
  /\ []LowRatioOutcome
  /\ [][(/\ LowRatio /\ ic_pc = "done" /\ ~args.fail_min_ratio
         /\ chunk_log' # chunk_log) =>
          /\ Last(chunk_log').ret = "true"
          /\ IF chunk_start_pos + chunk_size <= end_pos
             THEN /\ exit_code' = "none" /\ ic_pc' = "load"
                  /\ chunk_start_pos' = chunk_start_pos + chunk_size
             ELSE exit_code' = "EXIT_SUCCESS"]_vars

Wit_C12 ==
  /\ Len(chunk_log) = 1 /\ chunk_log[1].low /\ chunk_log[1].ret = "true"
  /\ ~args.fail_min_ratio
  /\ exit_code = "none" /\ finished # {}

\* C13: the chunks handed to impute_chunk follow each other in increasing
\* position order, each after the one before returned true; a chunk that
\* returns false ends the run with EXIT_FAILURE and is the last chunk started;
\* the run ends with EXIT_SUCCESS only after every chunk up to end_pos returned
\* true.
ChunkOrder ==
  /\ \A k \in 1..Len(chunk_log) :
       /\ k < Len(chunk_log) =>
            /\ chunk_log[k].ret = "true"
            /\ chunk_log[k + 1].from = chunk_log[k].to + 1
       /\ chunk_log[k].to = Min(end_pos, chunk_log[k].from + chunk_size - 1)
  /\ exit_code = "EXIT_FAILURE" <=>
       (chunk_log # <<>> /\ Last(chunk_log).ret = "false")
  /\ exit_code = "EXIT_SUCCESS" =>
       /\ \A k \in 1..Len(chunk_log) : chunk_log[k].ret = "true"
       /\ chunk_log # <<>> /\ Last(chunk_log).to = end_pos
  /\ exit_code = "none" =>
       chunk_start_pos = (IF chunk_log = <<>> THEN chunk_start_pos
                          ELSE Last(chunk_log).to + 1)

Thm_C13 ==
  /\ []ChunkOrder
  /\ [][(ic_pc' = "load" /\ ic_pc # "load") =>
          /\ ic_pc = "done" /\ ret = "true"
          /\ InFlight = {} /\ exit_code = "none"
          /\ chunk_start_pos' > chunk_start_pos]_vars
  /\ [][exit_code # "none" => UNCHANGED <<ic_pc, chunk_log, exit_code>>]_vars

Wit_C13 ==
  /\ Len(chunk_log) = 2 /\ chunk_log[2].ret = "false" /\ exit_code = "EXIT_FAILURE"
  /\ written # <<>>

\* C14: when impute_chunk has returned, by any return path, no temp file it
\* created is still present in the file system.
Cex_C14 == ic_pc \in {"done", "load_failed"} => tmp_fs = {}

\* the groups whose loop and spill step are over
GroupsDone ==
  IF ic_pc \in {"group", "fill", "loop", "parallel", "spill", "spill_emp",
                "spill_unlink", "temp_write", "output"}
     /\ haplotype_buffer_size > 0
  THEN GroupNumber ELSE 0

InGroupLoop ==
  /\ haplotype_buffer_size > 0
  /\ ic_pc \in {"group", "fill", "loop", "parallel", "spill", "spill_emp",
                "spill_unlink", "temp_write", "output"}

\* C15 as stated: a group is written to a temp file exactly when it is not the
\* last group of the chunk.
Cex_C15 ==
  /\ \A k \in 1..Len(written) :
       written[k].kind = "temp" => written[k].to < TargetHaps
  /\ ic_pc = "temp_write" => group_i + group_size < TargetHaps
  /\ (InGroupLoop /\ group_i < TargetHaps) => Len(written) = GroupsDone

\* C15, amended: a group is written to a temp file exactly when the chunk has
\* more than one group (more target haplotypes than haplotype_buffer_size), and
\* then every group is, the last one included.
Thm_C15 ==
  /\ \A k \in 1..Len(written) :
       written[k].kind = "temp" =>
         /\ TargetHaps > haplotype_buffer_size
         /\ written[k].from = (k - 1) * haplotype_buffer_size
         /\ written[k].to = Min(TargetHaps, k * haplotype_buffer_size)
  /\ ic_pc = "temp_write" => TargetHaps > haplotype_buffer_size
  /\ InGroupLoop =>
       Len(written) = (IF TargetHaps > haplotype_buffer_size THEN GroupsDone ELSE 0)

Wit_C15 ==
  /\ ic_pc = "output" /\ Len(written) = 2
  /\ written[2].kind = "temp" /\ written[2].to = TargetHaps
  /\ written[2].to - written[2].from < haplotype_buffer_size

RanHmm == haplotype_buffer_size > 0

NGroups == (TargetHaps + haplotype_buffer_size - 1) \div haplotype_buffer_size

FinalRecords == {k \in 1..Len(written) : written[k].kind \in {"merge", "final"}}

GroupsReachWriter ==
  /\ Cardinality(FinalRecords) <= 1
  /\ FinalRecords \subseteq {Len(written)}
  /\ RanHmm =>
       /\ ic_pc = "merge" =>
            /\ group_i >= TargetHaps
            /\ temp_files = [k \in 1..NGroups |-> k - 1]
            /\ args.emp_out => temp_emp_files = temp_files
            /\ Len(written) = NGroups
            /\ \A k \in 1..NGroups :
                 /\ written[k].kind = "temp"
                 /\ written[k].from = (k - 1) * haplotype_buffer_size
       /\ ic_pc = "final_write" =>
            /\ group_i >= TargetHaps
            /\ temp_files = <<>> /\ written = <<>>
       /\ (ic_pc = "done" /\ ret = "true") =>
            /\ Cardinality(FinalRecords) = 1
            /\ Last(written).kind = (IF temp_files # <<>> THEN "merge" ELSE "final")
            /\ Last(written).files = temp_files

OutputBranches ==
  (ic_pc = "output" /\ RanHmm /\ ic_pc' # "output") =>
    (ic_pc' = (IF temp_files # <<>> THEN "merge" ELSE "final_write"))

WriterReturns ==
  (ic_pc \in {"merge", "final_write"}) => (ic_pc' \in {ic_pc, "done"})

\* C16: in a chunk that runs the HMM and takes no error return, the groups
\* reach the final writer once: with temp files, one merge_temp_files after all
\* groups over one temp file per group in group order and no write_dosages on
\* the final writer; without, one write_dosages on the final writer and no merge.
Thm_C16 ==
  /\ []GroupsReachWriter
  /\ [][OutputBranches]_vars
  /\ [][WriterReturns]_vars

Wit_C16 ==
  /\ ic_pc = "done" /\ ret = "true" /\ RanHmm
  /\ Len(written) = 4 /\ Last(written).kind = "merge"
  /\ Last(written).files = <<0, 1, 2>> /\ Last(written).emp_files = <<0, 1, 2>>

\* C17: if --all-typed-sites is not set, the target-only site list handed to
\* any write_dosages call, into a temp file or into the final writer, is empty.
Cex_C17 ==
  (~args.all_typed_sites /\ ic_pc \in {"temp_write", "final_write"}) =>
    target_only_sites = 0

EmptyChunk == panel.full_size = 0 /\ ic_pc \notin {"load", "load_failed"}

NothingImputed ==
  /\ haplotype_buffer_size = 0 /\ group_i = 0
  /\ pending = {} /\ finished = {} /\ skipped = {} /\ col_writes = {}
  /\ \A w \in DOMAIN worker : worker[w].phase = "idle"
  /\ tmp_fs = {} /\ temp_files = <<>> /\ temp_emp_files = <<>>

EmptyChunkSkipped ==
  EmptyChunk =>
    /\ NothingImputed
    /\ ic_pc \in {"output", "final_write", "done"}
    /\ ic_pc = "final_write" => target_only_sites > 0
    /\ ic_pc = "done" =>
         \/ ret = "true"
         \/ ret = "false" /\ target_only_sites > 0 /\ written = <<>>

EmptyChunkNoRatioReturn ==
  (panel.full_size = 0 /\ ic_pc = "load" /\ ic_pc' \notin {"load", "load_failed"}) =>
    (ic_pc' = "output" /\ ret' = ret)

EmptyChunkNoSites ==
  (panel.full_size = 0 /\ ic_pc = "output" /\ target_only_sites = 0 /\ ic_pc' # "output") =>
    (ic_pc' = "done" /\ ret' = "true" /\ written' = <<>>)

BlockField(name) ==
  CASE name = "min-block-size" -> "min_block_size_"
    [] name = "max-block-size" -> "max_block_size_"
    [] name = "slope-unit" -> "slope_unit_"

BlockOptionParsed ==
  (argv # <<>> /\ argv' = Tail(argv) /\ Head(argv).name \in BlockOptions) =>
    (prog_args' = [prog_args EXCEPT ![BlockField(Head(argv).name)] =
                     Max(1, Atoll(Head(argv).optarg))])

\* C19: parsing --min-block-size N, --max-block-size N or --slope-unit N sets
\* the option's own field to max(1, N) and leaves every other parsed field,
\* min_ratio_ in particular, as it was.
Cex_C19 == [][BlockOptionParsed]_vars

LooDimensions(r) ==
  <<Len(r.loo_dosages_), IF r.loo_dosages_ = <<>> THEN 0 ELSE Len(r.loo_dosages_[1])>>

\* C20: dimensions_loo() returns the dimensions of loo_dosages_: its number of
\* rows and the length of its first row, <<0, 0>> when it has no row, also
\* when dosages_ has another number of rows.
Cex_C20 == last_dims.op = "dimensions_loo" => last_dims.dims = LooDimensions(results)

\* ------------------------------------------------------------------------
\* Properties of the input preparation
\* ------------------------------------------------------------------------
InReference(v) == v.in_ref

TargetOnly(v) == ~v.in_ref

Thm_C22 ==
  recom_load.pc = "done" =>
    /\ \A k \in 1..(Len(recom_load.recom) - 1) :
         /\ recom_load.recom[k] >= recom_load.recom_min
         /\ recom_load.recom[k] <= ProbUnit \div 2
    /\ recom_load.recom[Len(recom_load.recom)] = 0

Wit_C22 ==
  /\ recom_load.pc = "done" /\ recom_load.mode = "sites"
  /\ Len(recom_load.recom) = 3
  /\ recom_load.gaps[1] = <<3000, 4000>> /\ recom_load.recom[1] = 5000
  /\ recom_load.recom_min = 1 /\ recom_load.recom[2] = 1

DeprecatedRemapped ==
  (argv # <<>> /\ argv' = Tail(argv) /\ Head(argv).name \in {d[1] : d \in Deprecated}) =>
    (prog_args' = ParseOption(prog_args, CurrentOption(Head(argv).name), Head(argv).optarg))

\* C23: a deprecated option leaves prog_args as the current option it is
\* remapped to does, given the same argument: --allTypedSites, --mapFile,
\* --window, --cpus, --minRatio as --all-typed-sites, --map, --overlap,
\* --threads, --min-ratio.
Cex_C23 == [][DeprecatedRemapped]_vars

RealHaps == (0..(TargetHaps - 1)) \ panel.eov

\* what has been traversed, is being traversed and is still to be taken
TraversalsDisjoint ==
  /\ finished \cap skipped = {} /\ finished \cap pending = {}
  /\ skipped \cap pending = {}
  /\ skipped \subseteq panel.eov /\ finished \subseteq RealHaps
  /\ \A w \in InFlight :
       /\ worker[w].h \in RealHaps
       /\ worker[w].h \notin (finished \cup skipped \cup pending)
       /\ hmm_busy[ThreadIndex(w)] = {worker[w].h}
       /\ \A v \in InFlight : worker[v].h = worker[w].h => v = w
  /\ \A t \in DOMAIN hmm_busy :
       hmm_busy[t] # {} => \E w \in InFlight : ThreadIndex(w) = t
  /\ (ic_pc \in {"output", "merge", "final_write"} /\ haplotype_buffer_size > 0) =>
       /\ finished = RealHaps
       /\ skipped = (0..(TargetHaps - 1)) \cap panel.eov

\* the steps of one pool thread: forward of a haplotype not traversed before on
\* an instance at rest, then backward of that haplotype on that instance
TraversalProtocol ==
  \A w \in Worker :
    LET t == ThreadIndex(w) IN
    worker'[w] # worker[w] =>
      \/ /\ worker[w].phase = "idle" /\ worker'[w].phase = "forward"
         /\ worker'[w].h \in pending /\ worker'[w].h \notin pending'
         /\ hmm_busy[t] = {} /\ hmm_busy'[t] = {worker'[w].h}
      \/ /\ worker[w].phase = "forward" /\ worker'[w].phase = "backward"
         /\ worker'[w].h = worker[w].h
         /\ hmm_busy'[t] = hmm_busy[t]
      \/ /\ worker[w].phase = "backward" /\ worker'[w].phase = "idle"
         /\ finished' = finished \cup {worker[w].h}
         /\ hmm_busy'[t] = {}

\* a haplotype once traversed or skipped stays so until impute_chunk returns
TraversedOnce ==
  (finished \subseteq finished') /\ (skipped \subseteq skipped')

\* C24: in a chunk whose group loop runs to its end, every haplotype whose
\* first-site genotype is not the sentinel gets traverse_forward and then
\* traverse_backward once, on one element of hmms that traverses no other
\* haplotype in between; a haplotype with the sentinel is never traversed.
Thm_C24 ==
  /\ []TraversalsDisjoint
  /\ [][TraversalProtocol]_vars
  /\ [][TraversedOnce]_vars

Wit_C24 ==
  /\ ic_pc = "merge" /\ args.threads = 2 /\ panel.eov = {1}
  /\ finished = RealHaps /\ skipped = {1}
  /\ \E a, b \in col_writes : a.thread # b.thread

InGroup == ic_pc \in {"loop", "parallel", "spill", "spill_emp", "spill_unlink", "temp_write"}

SentinelAtLoopStart ==
  ic_pc = "loop" => \A c \in DOMAIN dosages_ : dosages_[c] = EOV

NoStaleColumn ==
  (InGroup \/ (ic_pc = "final_write" /\ haplotype_buffer_size > 0)) =>
    /\ DOMAIN dosages_ = 0..(group_size - 1)
    /\ \A c \in DOMAIN dosages_ :
         dosages_[c] # EOV =>
           (dosages_[c] \in IF InGroup THEN GroupHaps ELSE 0..(TargetHaps - 1))

PaddingColumnSentinel ==
  ic_pc = "temp_write" =>
    \A h \in GroupHaps \cap panel.eov :
      dosages_[OutputColumn(h, haplotype_buffer_size)] = EOV

\* C25: when the parallel loop of a group starts every cell of the result
\* matrices holds the sentinel; so when the group is written the column of a
\* padding haplotype is all sentinel and nothing of an earlier group is left.
Thm_C25 == SentinelAtLoopStart /\ NoStaleColumn /\ PaddingColumnSentinel

Wit_C25 ==
  /\ ic_pc = "temp_write" /\ group_i > 0 /\ group_size < haplotype_buffer_size
  /\ Len(written) = 1 /\ written[1].dosages[0] # EOV
  /\ panel.eov = {1} /\ written[1].dosages[1] = EOV

\* the sample ids [a, b) in their order
SampleIds(range) == [j \in 1..(range[2] - range[1]) |-> range[1] + j - 1]

\* the samples of the temp files of a merge list, file after file
RECURSIVE MergedSamples(_)
MergedSamples(files) ==
  IF files = <<>> THEN <<>>
  ELSE SampleIds(written[Head(files) + 1].samples) \o MergedSamples(Tail(files))

\* C26: the sample ranges of the temp writers of successive groups are
\* non-empty, start at 0, each starts where the one before ended, and the temp
\* files are listed for the merge in that order; the merged per-sample fields
\* are the target samples once each in their original order.
Thm_C26 ==
  /\ \A k \in 1..Len(written) :
       written[k].kind = "temp" =>
         /\ written[k].samples[1] = (IF k = 1 THEN 0 ELSE written[k - 1].samples[2])
         /\ written[k].samples[1] < written[k].samples[2]
         /\ written[k].samples[2] <= panel.n_samples
         /\ written[k].files[Len(written[k].files)] = k - 1
  /\ ic_pc = "merge" =>
       MergedSamples(temp_files) = [j \in 1..panel.n_samples |-> j - 1]

Wit_C26 ==
  /\ ic_pc = "merge" /\ panel.ploidy = 2 /\ panel.n_samples = 3
  /\ Len(temp_files) = 2 /\ written[2].samples = <<2, 3>>

\* C27: for every collection built by compress_variant and append_block, the
\* loop from begin() to end() takes variant_size() steps, visits global_idx
\* 0, 1, ... in order and only positions inside their block, and operator--
\* undoes operator++ at each of them, across blocks and back from end().
Cex_C27 ==
  LET it == Iteration(blocks_, IterBegin)
  IN /\ Len(it) = variant_count_
     /\ \A k \in 1..Len(it) :
          /\ GlobalIdx(block_offsets_, it[k]) = k - 1
          /\ it[k].variant_idx < Len(blocks_[it[k].block_idx + 1].variants)
          /\ IterDec(blocks_, IterInc(blocks_, it[k])) = it[k]

\* ------------------------------------------------------------------------
\* Properties of hidden_markov_model
\* ------------------------------------------------------------------------
TransposeJumps ==
  hmm.last_transpose.i > 0 =>
    LET t == hmm.last_transpose
        below == DotSeq(t.from, uniq_cardinalities) < jump_threshold
    IN /\ t.ret = below
       /\ t.scale = (IF below THEN jump_fix ELSE 1)

JumpsRecorded ==
  \A k \in 1..Len(hmm.precision_jumps_) : hmm.precision_jumps_[k] = (k \in hmm.rescaled)

MissingSkipsCondition ==
  (hmm.pc \in {"transpose", "done"} /\ hmm.last_condition.i = hmm.i
     /\ hmm.last_condition.observed < 0) =>
    (hmm.probs = hmm.last_condition.probs /\ hmm.norecom = hmm.last_condition.norecom)

\* C28: transpose rescales by jump_fix and returns true exactly when the sum
\* of the incoming probabilities is below jump_threshold; precision_jumps_[i]
\* is true exactly at the variants where it rescaled; and conditioning on a
\* missing observed allele changes neither probability vector.
Thm_C28 == TransposeJumps /\ JumpsRecorded /\ MissingSkipsCondition

Wit_C28 ==
  /\ hmm.pc = "done" /\ Len(hmm.obs) = 3
  /\ hmm.precision_jumps_ = <<FALSE, TRUE, FALSE>>
  /\ hmm.obs[3] = -1 /\ hmm.last_condition.probs # <<0, 0>>

\* the regions handed to impute_chunk: one after the other from the first
\* position, none longer than chunk_size, none beyond end_pos
ChunkRegions ==
  /\ \A k \in 1..Len(chunk_log) :
       /\ chunk_log[k].to - chunk_log[k].from + 1 <= chunk_size
       /\ chunk_log[k].to <= end_pos
       /\ k > 1 => chunk_log[k].from = chunk_log[k - 1].to + 1
  /\ exit_code = "EXIT_SUCCESS" => (chunk_log # <<>> /\ Last(chunk_log).to = end_pos)

RunEnded == exit_code # "none"

\* C29: for every chunk size the parser accepts the chunk loop ends, and its
\* regions are disjoint, contiguous, at most chunk_size long, and cover the
\* region from the first position to end_pos.
Cex_C29 == (<>RunEnded) /\ []ChunkRegions

InGroupBody ==
  ic_pc \in {"fill", "loop", "parallel", "spill", "spill_emp", "spill_unlink",
             "temp_write"}

\* the loop variable advances by a positive step towards the number of
\* haplotypes, and the group it stands at is the next range of
\* haplotype_buffer_size haplotypes, the last possibly shorter
GroupsPartitionHaplotypes ==
  InGroupBody =>
    /\ haplotype_buffer_size = args.temp_buffer * panel.ploidy
    /\ haplotype_buffer_size > 0
    /\ group_i < TargetHaps
    /\ group_i % haplotype_buffer_size = 0
    /\ group_size = Min(haplotype_buffer_size, TargetHaps - group_i)
    /\ group_size > 0

\* every column written in the group is a column of the dosage matrices
ColumnsInMatrix ==
  (InGroupBody /\ ic_pc \notin {"fill", "loop"} /\ haplotype_buffer_size > 0) =>
    \A cw \in col_writes :
      /\ cw.col = cw.h % haplotype_buffer_size
      /\ cw.col \in DOMAIN dosages_

\* C30: for every temp_buffer the parser accepts the group loop ends, its
\* groups split the haplotypes into consecutive ranges of temp_buffer * ploidy
\* (the last possibly shorter), and every column h mod haplotype_buffer_size
\* written in a group is below the column count of the dosage matrices.
Cex_C30 == GroupsPartitionHaplotypes /\ ColumnsInMatrix

====
